---- MODULE Spec2Model ----
(***************************************************************************)
(* A model of the wholesale-marketplace backend: products with tiered      *)
(* prices, retailer carts, salesman carts, orders, connections, and the    *)
(* HTTP handlers that change them.  Each handler is an operator on the     *)
(* database documents it reads and writes; `res` is the handler's HTTP     *)
(* response.  Money is kept in integers; the unit prices used are          *)
(* multiples of 100, so the division by 100 in the GST computation is      *)
(* exact (the handlers compute it in JavaScript Numbers).                  *)
(***************************************************************************)
EXTENDS Integers, Sequences, FiniteSets, Bags, TLC

VARIABLES
    products,       \* Product collection: product id -> document
    cart,           \* Cart collection: retailer id -> [exists, items]
    salesmanCart,   \* SalesmanCart collection: <<salesman, retailer>> -> [exists, items]
    orders,         \* Order collection, in creation order (the index is the _id)
    connections,    \* Connection collection: a set of documents
    retailers,      \* Retailer collection: the ids of the registered retailers
    today,          \* the calendar day of the server clock
    reqs,           \* the requests in flight, each with its handler's local variables
    res,            \* the response of the handler that ran last
    placed          \* history: per order, the stock before its placement, whether an
                    \* operation on another order changed the stock of one of its
                    \* products since, and how often its own cancel restored stock

vars == <<products, cart, salesmanCart, orders, connections, retailers, today, reqs, res, placed>>

-----------------------------------------------------------------------------
(* Bounds of the model *)

MaxTiers == 2        \* pricing: the longest pricing_tiers list drawn
MaxTierQty == 2      \* pricing: tier limits and quantities range over 1..MaxTierQty
MaxQty == 1          \* orders: quantities range over 1..MaxQty, the stock starts at MaxQty
MaxOrders == 2       \* orders: the orders created in one behaviour
MaxStatusOrders == 1 \* order status: the orders created in one behaviour
MaxRequests == 2     \* concurrency: the placements begun in one behaviour
MaxInFlight == 2     \* connections: the requests between their queries and their save
MaxDay == 1          \* order status: the days that pass in one behaviour

-----------------------------------------------------------------------------
(* The identities in the database *)

Wholesalers == {"w1", "w2"}
RetailerIds == {"r1", "r2"}
Salesmen == {"s1"}
ProductIds == {"p1", "p2", "p3"}
None == "none"

\* Salesman.findById: a salesman belongs to one wholesaler and carries permissions
Salesman(s) ==
    [wholesaler_id |-> "w1",
     permissions |-> [can_delete_retailers |-> FALSE, can_place_orders |-> TRUE]]

\* the owner of each product (Product.wholesaler_id, set at creation from the caller)
OwnerOf(p) == IF p = "p2" THEN "w2" ELSE "w1"

\* price_per_unit of the tier stored at position i, and base_price: all distinct,
\* so that a resolved price tells which tier was taken
TierPrice(i) == 1000 - 100 * i
BasePrice == TierPrice(0)
\* gst_percentage of each product: the schema's default 18, and a zero-rated product
GstOf(p) == IF p = "p2" THEN 0 ELSE 18

\* max_quantity is <<>> for null (no upper limit) and <<n>> for the number n
NullMax == <<>>
Tier(lo, hi, price) == [min_quantity |-> lo, max_quantity |-> hi, price_per_unit |-> price]

Resp(op, code, error) == [op |-> op, code |-> code, error |-> error]

-----------------------------------------------------------------------------
(* Pricing: the scan over pricing_tiers that every price-resolving handler runs *)

\* the mutant of the scan that lacks the `break`: the last matching tier wins
RECURSIVE tierLoopNoBreak(_, _, _, _)
tierLoopNoBreak(tiers, i, quantity, unitPrice) ==
    IF i > Len(tiers) THEN unitPrice
    ELSE IF quantity >= tiers[i].min_quantity
            /\ (tiers[i].max_quantity = NullMax \/ quantity <= tiers[i].max_quantity[1])
         THEN tierLoopNoBreak(tiers, i + 1, quantity, tiers[i].price_per_unit)
         ELSE tierLoopNoBreak(tiers, i + 1, quantity, unitPrice)

\* for (const tier of product.pricing_tiers) { if (quantity >= tier.min_quantity) {
\*   if (tier.max_quantity === null || quantity <= tier.max_quantity) {
\*     unitPrice = tier.price_per_unit; break; } } }
RECURSIVE tierLoop(_, _, _, _)
tierLoop(tiers, i, quantity, unitPrice) ==
    IF i > Len(tiers) THEN unitPrice
    ELSE IF quantity >= tiers[i].min_quantity
         THEN IF tiers[i].max_quantity = NullMax \/ quantity <= tiers[i].max_quantity[1]
              THEN tiers[i].price_per_unit
              ELSE tierLoop(tiers, i + 1, quantity, unitPrice)
         ELSE tierLoop(tiers, i + 1, quantity, unitPrice)

\* let unitPrice = product.base_price; then the scan (POST /cart/add)
cartAddUnitPrice(product, quantity) ==
    tierLoop(product.pricing_tiers, 1, quantity, product.base_price)

\* the same scan in PUT /cart/update/:product_id
cartUpdateUnitPrice(product, quantity) ==
    tierLoop(product.pricing_tiers, 1, quantity, product.base_price)

\* the same scan in POST /products/:id/calculate-price
calculatePriceUnitPrice(product, quantity) ==
    tierLoop(product.pricing_tiers, 1, quantity, product.base_price)

\* the salesman cart's scans run only if (pricing_tiers && pricing_tiers.length > 0)
salesmanAddUnitPrice(product, quantity) ==
    IF Len(product.pricing_tiers) > 0
    THEN tierLoop(product.pricing_tiers, 1, quantity, product.base_price)
    ELSE product.base_price

salesmanUpdateUnitPrice(product, quantity) ==
    IF Len(product.pricing_tiers) > 0
    THEN tierLoop(product.pricing_tiers, 1, quantity, product.base_price)
    ELSE product.base_price

-----------------------------------------------------------------------------
(* Documents *)

NoCart == [exists |-> FALSE, items |-> <<>>]
CartDoc(items) == [exists |-> TRUE, items |-> items]

\* cart.items.findIndex(item => item.product_id.toString() === product_id): 0 for -1
findIndex(items, product_id) ==
    IF \E i \in 1..Len(items) : items[i].product_id = product_id
    THEN CHOOSE i \in 1..Len(items) :
            /\ items[i].product_id = product_id
            /\ \A j \in 1..(i - 1) : items[j].product_id # product_id
    ELSE 0

\* a mutant of the upsert that pushes a new line also for a product in the cart
upsertItemAlwaysPush(items, product_id, quantity, unitPrice) ==
    Append(items, [product_id |-> product_id, quantity |-> quantity,
                   unit_price |-> unitPrice])

\* the items of a cart after add: overwrite the line found, or push a new one
upsertItem(items, product_id, quantity, unitPrice) ==
    LET existingItemIndex == findIndex(items, product_id) IN
    IF existingItemIndex > 0
    THEN [items EXCEPT ![existingItemIndex].quantity = quantity,
                       ![existingItemIndex].unit_price = unitPrice]
    ELSE Append(items, [product_id |-> product_id, quantity |-> quantity,
                        unit_price |-> unitPrice])

\* a mutant of the empty-cart test that lets every cart through
isEmptyCartNever(c) == FALSE

\* !cart || cart.items.length === 0
isEmptyCart(c) == ~c.exists \/ Len(c.items) = 0

\* a mutant of the connection query without its status condition
approvedConnectionAnyStatus(conns, w, r) ==
    \E c \in conns : c.wholesaler_id = w /\ c.retailer_id = r

\* Connection.findOne({wholesaler_id, retailer_id, status: 'approved'}) finds a document
approvedConnection(conns, w, r) ==
    \E c \in conns : c.wholesaler_id = w /\ c.retailer_id = r /\ c.status = "approved"

-----------------------------------------------------------------------------
(* Cart handlers of the retailer (routes/cart.js) *)

\* POST /cart/add
CartAdd(r, product_id, quantity) ==
    LET product == products[product_id]
        unitPrice == cartAddUnitPrice(product, quantity)
    IN  /\ r \in retailers
        /\ IF ~product.is_active
           THEN res' = Resp("cart.add", 400, "inactive") /\ UNCHANGED cart
           ELSE IF quantity < product.moq
           THEN res' = Resp("cart.add", 400, "moq") /\ UNCHANGED cart
           ELSE IF quantity > product.stock_quantity
           THEN res' = Resp("cart.add", 400, "stock") /\ UNCHANGED cart
           ELSE /\ cart' = [cart EXCEPT ![r] =
                        CartDoc(upsertItem(cart[r].items, product_id, quantity, unitPrice))]
                /\ res' = Resp("cart.add", 200, None)
        /\ UNCHANGED <<products, salesmanCart, orders, connections, retailers, today,
                       reqs, placed>>

\* a mutant of the cart update without the MOQ and stock checks
CartUpdateNoValidation(r, product_id, quantity) ==
    LET product == products[product_id]
        itemIndex == findIndex(cart[r].items, product_id)
        unitPrice == cartUpdateUnitPrice(product, quantity)
    IN  /\ r \in retailers
        /\ IF ~cart[r].exists
           THEN res' = Resp("cart.update", 404, "no cart") /\ UNCHANGED cart
           ELSE IF itemIndex = 0
           THEN res' = Resp("cart.update", 404, "not in cart") /\ UNCHANGED cart
           ELSE /\ cart' = [cart EXCEPT ![r].items[itemIndex].quantity = quantity,
                                        ![r].items[itemIndex].unit_price = unitPrice]
                /\ res' = Resp("cart.update", 200, None)
        /\ UNCHANGED <<products, salesmanCart, orders, connections, retailers, today,
                       reqs, placed>>

\* PUT /cart/update/:product_id
CartUpdate(r, product_id, quantity) ==
    LET product == products[product_id]
        itemIndex == findIndex(cart[r].items, product_id)
        unitPrice == cartUpdateUnitPrice(product, quantity)
    IN  /\ r \in retailers
        /\ IF ~cart[r].exists
           THEN res' = Resp("cart.update", 404, "no cart") /\ UNCHANGED cart
           ELSE IF itemIndex = 0
           THEN res' = Resp("cart.update", 404, "not in cart") /\ UNCHANGED cart
           ELSE IF quantity < product.moq
           THEN res' = Resp("cart.update", 400, "moq") /\ UNCHANGED cart
           ELSE IF quantity > product.stock_quantity
           THEN res' = Resp("cart.update", 400, "stock") /\ UNCHANGED cart
           ELSE /\ cart' = [cart EXCEPT ![r].items[itemIndex].quantity = quantity,
                                        ![r].items[itemIndex].unit_price = unitPrice]
                /\ res' = Resp("cart.update", 200, None)
        /\ UNCHANGED <<products, salesmanCart, orders, connections, retailers, today,
                       reqs, placed>>

\* the cart total that GET /cart reports: the sum of quantity * unit_price over the lines
RECURSIVE cartTotal(_)
cartTotal(items) ==
    IF items = <<>> THEN 0
    ELSE cartTotal(SubSeq(items, 1, Len(items) - 1))
            + items[Len(items)].quantity * items[Len(items)].unit_price

\* the total that the salesman's GET /cart/:retailer_id reports: the same sum
salesmanCartTotal(items) == cartTotal(items)

\* POST /products/:id/calculate-price
CalculatePrice(product_id, quantity) ==
    LET product == products[product_id]
        unitPrice == calculatePriceUnitPrice(product, quantity)
        subtotal == unitPrice * quantity
        gstAmount == (subtotal * product.gst_percentage) \div 100
    IN  /\ IF quantity < product.moq
           THEN res' = Resp("calculate-price", 400, "moq")
           ELSE res' = [op |-> "calculate-price", code |-> 200, error |-> None,
                        product_id |-> product_id, unit_price |-> unitPrice,
                        quantity |-> quantity, subtotal |-> subtotal,
                        gst_amount |-> gstAmount, total |-> subtotal + gstAmount]
        /\ UNCHANGED <<products, cart, salesmanCart, orders, connections, retailers,
                       today, reqs, placed>>

-----------------------------------------------------------------------------
(* Cart handlers of the salesman (the salesman routes in routes/connections.js) *)

\* a mutant of the salesman's cart add without the check of the product's owner
SalesmanCartAddAnyProduct(s, retailer_id, product_id, quantity) ==
    LET salesman == Salesman(s)
        product == products[product_id]
        unitPrice == salesmanAddUnitPrice(product, quantity)
        key == <<s, retailer_id>>
        fail(code, error) == res' = Resp("salesman.cart.add", code, error)
                                /\ UNCHANGED salesmanCart
    IN  /\ IF ~salesman.permissions.can_place_orders
           THEN fail(403, "permission")
           ELSE IF ~approvedConnection(connections, salesman.wholesaler_id, retailer_id)
           THEN fail(400, "not connected")
           ELSE IF ~product.is_active
           THEN fail(400, "inactive")
           ELSE IF quantity < product.moq
           THEN fail(400, "moq")
           ELSE IF quantity > product.stock_quantity
           THEN fail(400, "stock")
           ELSE /\ salesmanCart' = [salesmanCart EXCEPT ![key] =
                        [exists |-> TRUE, wholesaler_id |-> salesman.wholesaler_id,
                         items |-> upsertItem(salesmanCart[key].items, product_id,
                                              quantity, unitPrice)]]
                /\ res' = Resp("salesman.cart.add", 200, None)
        /\ UNCHANGED <<products, cart, orders, connections, retailers, today, reqs, placed>>

\* POST /cart/:retailer_id/add
SalesmanCartAdd(s, retailer_id, product_id, quantity) ==
    LET salesman == Salesman(s)
        product == products[product_id]
        unitPrice == salesmanAddUnitPrice(product, quantity)
        key == <<s, retailer_id>>
        fail(code, error) == res' = Resp("salesman.cart.add", code, error)
                                /\ UNCHANGED salesmanCart
    IN  /\ IF ~salesman.permissions.can_place_orders
           THEN fail(403, "permission")
           ELSE IF ~approvedConnection(connections, salesman.wholesaler_id, retailer_id)
           THEN fail(400, "not connected")
           ELSE IF product.wholesaler_id # salesman.wholesaler_id
           THEN fail(400, "not your product")
           ELSE IF ~product.is_active
           THEN fail(400, "inactive")
           ELSE IF quantity < product.moq
           THEN fail(400, "moq")
           ELSE IF quantity > product.stock_quantity
           THEN fail(400, "stock")
           ELSE /\ salesmanCart' = [salesmanCart EXCEPT ![key] =
                        [exists |-> TRUE, wholesaler_id |-> salesman.wholesaler_id,
                         items |-> upsertItem(salesmanCart[key].items, product_id,
                                              quantity, unitPrice)]]
                /\ res' = Resp("salesman.cart.add", 200, None)
        /\ UNCHANGED <<products, cart, orders, connections, retailers, today, reqs, placed>>

\* PUT /cart/:retailer_id/update/:product_id
SalesmanCartUpdate(s, retailer_id, product_id, quantity) ==
    LET product == products[product_id]
        key == <<s, retailer_id>>
        itemIndex == findIndex(salesmanCart[key].items, product_id)
        unitPrice == salesmanUpdateUnitPrice(product, quantity)
        fail(code, error) == res' = Resp("salesman.cart.update", code, error)
                                /\ UNCHANGED salesmanCart
    IN  /\ IF ~salesmanCart[key].exists
           THEN fail(404, "no cart")
           ELSE IF itemIndex = 0
           THEN fail(404, "not in cart")
           ELSE IF quantity < product.moq
           THEN fail(400, "moq")
           ELSE IF quantity > product.stock_quantity
           THEN fail(400, "stock")
           ELSE /\ salesmanCart' = [salesmanCart EXCEPT
                        ![key].items[itemIndex].quantity = quantity,
                        ![key].items[itemIndex].unit_price = unitPrice]
                /\ res' = Resp("salesman.cart.update", 200, None)
        /\ UNCHANGED <<products, cart, orders, connections, retailers, today, reqs, placed>>

NoSalesmanCart == [exists |-> FALSE, wholesaler_id |-> None, items |-> <<>>]

-----------------------------------------------------------------------------
(* The pricing specification: one product with an arbitrary tier list, priced by *)
(* each of the five handlers that resolve a unit price                           *)

MaxQuantities == {NullMax} \cup {<<n>> : n \in 1..MaxTierQty}
TierAt(i) == {Tier(lo, hi, TierPrice(i)) : lo \in 1..MaxTierQty, hi \in MaxQuantities}

\* the tier lists of 1..MaxTiers tiers (the schema's validator rejects an empty list),
\* in any order, overlapping or not, contiguous or not
TierLists ==
    UNION {{t \in [1..n -> UNION {TierAt(i) : i \in 1..n}] : \A i \in 1..n : t[i] \in TierAt(i)}
           : n \in 1..MaxTiers}

DefaultTiers == <<Tier(1, <<1>>, TierPrice(1)), Tier(2, NullMax, TierPrice(2))>>

ProductDoc(p, tiers, stock) ==
    [wholesaler_id |-> OwnerOf(p), moq |-> 1, stock_quantity |-> stock,
     pricing_tiers |-> tiers, base_price |-> BasePrice, gst_percentage |-> GstOf(p),
     is_active |-> TRUE]

ConnectionDoc(id, w, r, status, by, s) ==
    [id |-> id, wholesaler_id |-> w, retailer_id |-> r, status |-> status,
     requested_by |-> by, salesman_id |-> s]

InitRest ==
    /\ cart = [r \in RetailerIds |-> NoCart]
    /\ salesmanCart = [k \in Salesmen \X RetailerIds |-> NoSalesmanCart]
    /\ orders = <<>>
    /\ today = 0
    /\ res = Resp("none", 0, None)
    /\ placed = <<>>

InitPrice ==
    /\ \E tiers \in TierLists :
          products = [p \in ProductIds |->
                        ProductDoc(p, IF p = "p1" THEN tiers ELSE DefaultTiers, MaxTierQty)]
    /\ connections = {ConnectionDoc(1, "w1", "r1", "approved", "wholesaler", None)}
    /\ retailers = RetailerIds
    /\ reqs = <<>>
    /\ InitRest

NextPrice ==
    \E quantity \in 1..MaxTierQty :
        \/ CartAdd("r1", "p1", quantity)
        \/ CartUpdate("r1", "p1", quantity)
        \/ SalesmanCartAdd("s1", "r1", "p1", quantity)
        \/ SalesmanCartUpdate("s1", "r1", "p1", quantity)
        \/ CalculatePrice("p1", quantity)

SpecPrice == InitPrice /\ [][NextPrice]_vars

\* the range predicate of a tier
Matches(tier, q) ==
    /\ q >= tier.min_quantity
    /\ tier.max_quantity = NullMax \/ q <= tier.max_quantity[1]

\* the price_per_unit of the first tier in stored order that matches, else base_price
FirstMatchPrice(product, q) ==
    LET idx == {i \in 1..Len(product.pricing_tiers) : Matches(product.pricing_tiers[i], q)}
    IN  IF idx = {} THEN product.base_price
        ELSE product.pricing_tiers[CHOOSE i \in idx : \A j \in idx : i <= j].price_per_unit

AllCartItems ==
    UNION ({{cart[r].items[i] : i \in 1..Len(cart[r].items)} : r \in RetailerIds}
           \cup {{salesmanCart[k].items[i] : i \in 1..Len(salesmanCart[k].items)}
                 : k \in Salesmen \X RetailerIds})

\* C1: the unit price that cart add, cart update, the salesman's cart add and update
\* store in the line, and that calculate-price answers, is the price_per_unit of the
\* first tier in stored order whose range holds the quantity, and base_price when no
\* tier matches -- for every tier list, sorted or not, overlapping or not.
C1_FirstMatch ==
    /\ \A item \in AllCartItems :
          item.unit_price = FirstMatchPrice(products[item.product_id], item.quantity)
    /\ (res.op = "calculate-price" /\ res.code = 200) =>
          res.unit_price = FirstMatchPrice(products[res.product_id], res.quantity)

\* a list whose second tier also matches: first-match and best-match differ
C1_Witness ==
    /\ Len(products["p1"].pricing_tiers) = 2
    /\ Matches(products["p1"].pricing_tiers[1], 2)
    /\ Matches(products["p1"].pricing_tiers[2], 2)
    /\ cart["r1"].items # <<>> /\ cart["r1"].items[1].quantity = 2
    /\ salesmanCart[<<"s1", "r1">>].items # <<>>
    /\ res.op = "calculate-price" /\ res.code = 200 /\ res.quantity = 2

-----------------------------------------------------------------------------
(* Orders (routes/orders.js and the salesman's place-order in routes/connections.js) *)

ValidStatuses == {"pending", "confirmed", "processing", "shipped", "delivered", "cancelled"}

\* Order.countDocuments({createdAt: {$gte: startOfDay, $lte: endOfDay}})
todayOrdersCount(ords, day) ==
    Cardinality({i \in 1..Len(ords) : ords[i].createdAt = day})

\* `ORD${year}${month}${day}${sequence}`: the date digits and the sequence number,
\* which padStart(4, '0') pads and never cuts, so the string determines both parts
generateOrderNumber(ords, day) ==
    [date |-> day, sequence |-> todayOrdersCount(ords, day) + 1]

\* a mutant of the order line that resolves the unit price again from the product
orderItemResolvedAgain(item, product) ==
    LET unitPrice == tierLoop(product.pricing_tiers, 1, item.quantity, product.base_price)
        itemSubtotal == item.quantity * unitPrice
        itemGst == (itemSubtotal * product.gst_percentage) \div 100
    IN  [product_id |-> item.product_id, quantity |-> item.quantity,
         unit_price |-> unitPrice, gst_amount |-> itemGst,
         total_price |-> itemSubtotal + itemGst]

\* a mutant of the order line whose total_price leaves the GST out
orderItemTotalWithoutGst(item, product) ==
    LET itemSubtotal == item.quantity * item.unit_price
        itemGst == (itemSubtotal * product.gst_percentage) \div 100
    IN  [product_id |-> item.product_id, quantity |-> item.quantity,
         unit_price |-> item.unit_price, gst_amount |-> itemGst,
         total_price |-> itemSubtotal]

\* the order line built from a cart line and its populated product
orderItem(item, product) ==
    LET itemSubtotal == item.quantity * item.unit_price
        itemGst == (itemSubtotal * product.gst_percentage) \div 100
        itemTotal == itemSubtotal + itemGst
    IN  [product_id |-> item.product_id, quantity |-> item.quantity,
         unit_price |-> item.unit_price, gst_amount |-> itemGst,
         total_price |-> itemTotal]

\* a mutant of the subtotal that adds up the lines' totals, GST included
RECURSIVE sumSubtotalWithGst(_)
sumSubtotalWithGst(items) ==
    IF items = <<>> THEN 0
    ELSE sumSubtotalWithGst(SubSeq(items, 1, Len(items) - 1)) + items[Len(items)].total_price

\* orderData.subtotal += itemSubtotal, over the lines of one order
RECURSIVE sumSubtotal(_)
sumSubtotal(items) ==
    IF items = <<>> THEN 0
    ELSE sumSubtotal(SubSeq(items, 1, Len(items) - 1))
            + items[Len(items)].quantity * items[Len(items)].unit_price

\* orderData.gst_amount += itemGst, over the lines of one order
RECURSIVE sumGst(_)
sumGst(items) ==
    IF items = <<>> THEN 0
    ELSE sumGst(SubSeq(items, 1, Len(items) - 1)) + items[Len(items)].gst_amount

\* the order lines of every cart line, in cart order
RECURSIVE orderItems(_, _)
orderItems(items, prods) ==
    IF items = <<>> THEN <<>>
    ELSE Append(orderItems(SubSeq(items, 1, Len(items) - 1), prods),
                orderItem(items[Len(items)], prods[items[Len(items)].product_id]))

\* a mutant of the grouping with a key per cart line
wholesalerKeysPerLine(items, prods) ==
    [i \in 1..Len(items) |-> prods[items[i].product_id].wholesaler_id]

\* the keys of ordersByWholesaler, in the order of their first cart line
RECURSIVE wholesalerKeys(_, _)
wholesalerKeys(items, prods) ==
    IF items = <<>> THEN <<>>
    ELSE LET before == wholesalerKeys(SubSeq(items, 1, Len(items) - 1), prods)
             w == prods[items[Len(items)].product_id].wholesaler_id
         IN  IF \E i \in 1..Len(before) : before[i] = w THEN before ELSE Append(before, w)

\* ordersByWholesaler: for each wholesaler its lines, subtotal and gst_amount
ordersByWholesaler(items, prods) ==
    LET keys == wholesalerKeys(items, prods)
        linesOf(w) ==
            LET mine(item) == prods[item.product_id].wholesaler_id = w
            IN  orderItems(SelectSeq(items, mine), prods)
    IN  [k \in 1..Len(keys) |->
            [wholesaler_id |-> keys[k], items |-> linesOf(keys[k]),
             subtotal |-> sumSubtotal(linesOf(keys[k])),
             gst_amount |-> sumGst(linesOf(keys[k]))]]

\* new Order({...}) with the schema's defaults for status and payment_status, and the
\* createdAt and updatedAt of the schema's timestamps option
OrderDoc(number, retailer_id, wholesaler_id, salesman_id, orderData, day) ==
    [order_number |-> number, retailer_id |-> retailer_id,
     wholesaler_id |-> wholesaler_id, placed_by_salesman |-> salesman_id,
     items |-> orderData.items, subtotal |-> orderData.subtotal,
     gst_amount |-> orderData.gst_amount,
     total_amount |-> orderData.subtotal + orderData.gst_amount,
     status |-> "pending", payment_status |-> "pending", createdAt |-> day,
     updatedAt |-> day]

\* the quantity of product p in the lines `items` (0 when p is on no line)
RECURSIVE quantityOf(_, _)
quantityOf(items, p) ==
    IF items = <<>> THEN 0
    ELSE quantityOf(SubSeq(items, 1, Len(items) - 1), p)
            + (IF items[Len(items)].product_id = p THEN items[Len(items)].quantity ELSE 0)

\* a mutant of the stock update that restores instead of taking
incStockWrongSign(prods, items, sign) ==
    [p \in DOMAIN prods |->
        [prods[p] EXCEPT !.stock_quantity = @ - sign * quantityOf(items, p)]]

\* for (const item of items) Product.findByIdAndUpdate(item.product_id,
\*     {$inc: {stock_quantity: sign * item.quantity}})
incStock(prods, items, sign) ==
    [p \in DOMAIN prods |->
        [prods[p] EXCEPT !.stock_quantity = @ + sign * quantityOf(items, p)]]

\* order.save(): the unique index on order_number rejects a second document with the
\* same number
orderNumberTaken(ords, number) ==
    \E i \in 1..Len(ords) : ords[i].order_number = number

\* the `for (const wholesalerId in ordersByWholesaler)` loop of POST /orders/place, run
\* from group k on: number, save, stock update.  The result is the database after the
\* loop and whether a save threw.
RECURSIVE createOrders(_, _, _, _, _, _)
createOrders(groups, k, ords, prods, retailer_id, day) ==
    IF k > Len(groups) THEN [orders |-> ords, products |-> prods, threw |-> FALSE]
    ELSE LET number == generateOrderNumber(ords, day)
             order == OrderDoc(number, retailer_id, groups[k].wholesaler_id, None,
                               groups[k], day)
         IN  IF orderNumberTaken(ords, number)
             THEN [orders |-> ords, products |-> prods, threw |-> TRUE]
             ELSE createOrders(groups, k + 1, Append(ords, order),
                               incStock(prods, groups[k].items, -1), retailer_id, day)

\* the products on the lines `items`
productsOf(items) == {items[i].product_id : i \in 1..Len(items)}

\* history: a stock change of the products `changed`, made for order `own` (0: for a
\* new order), leaves the other orders on those products no longer clean
disturb(hist, ords, changed, own) ==
    [i \in 1..Len(hist) |->
        IF i = own THEN [hist[i] EXCEPT !.restored = IF @ < 2 THEN @ + 1 ELSE @]
        ELSE IF productsOf(ords[i].items) \cap changed # {}
        THEN [hist[i] EXCEPT !.clean = FALSE] ELSE hist[i]]

stockOf(prods) == [p \in DOMAIN prods |-> prods[p].stock_quantity]

\* history of the orders a placement appends: the stock before the placement
RECURSIVE record(_, _, _)
record(hist, n, pre) ==
    IF n = 0 THEN hist
    ELSE record(Append(hist, [pre |-> pre, clean |-> TRUE, restored |-> 0]), n - 1, pre)

\* POST /orders/place, as one step
PlaceOrder(r) ==
    LET groups == ordersByWholesaler(cart[r].items, products)
        done == createOrders(groups, 1, orders, products, r, today)
    IN  /\ r \in retailers
        /\ IF isEmptyCart(cart[r])
           THEN /\ res' = Resp("orders.place", 400, "Cart is empty")
                /\ UNCHANGED <<orders, products, cart, placed>>
           ELSE /\ orders' = done.orders
                /\ products' = done.products
                /\ placed' = record(disturb(placed, orders, productsOf(cart[r].items), 0),
                                    Len(done.orders) - Len(orders), stockOf(products))
                /\ IF done.threw
                   THEN res' = Resp("orders.place", 500, "Server error") /\ UNCHANGED cart
                   ELSE /\ cart' = [cart EXCEPT ![r].items = <<>>]
                        /\ res' = Resp("orders.place", 201, None)
        /\ UNCHANGED <<salesmanCart, connections, retailers, today, reqs>>

\* POST /place-order/:retailer_id of the salesman, as one step
SalesmanPlaceOrder(s, retailer_id) ==
    LET salesman == Salesman(s)
        key == <<s, retailer_id>>
        items == salesmanCart[key].items
        lines == orderItems(items, products)
        orderData == [items |-> lines, subtotal |-> sumSubtotal(lines),
                      gst_amount |-> sumGst(lines)]
        number == generateOrderNumber(orders, today)
        order == OrderDoc(number, retailer_id, salesman.wholesaler_id, s, orderData, today)
        fail(code, error) ==
            /\ res' = Resp("salesman.place-order", code, error)
            /\ UNCHANGED <<orders, products, salesmanCart, placed>>
    IN  /\ IF ~salesman.permissions.can_place_orders
           THEN fail(403, "permission")
           ELSE IF ~approvedConnection(connections, salesman.wholesaler_id, retailer_id)
           THEN fail(400, "not connected")
           ELSE IF retailer_id \notin retailers
           THEN fail(404, "Retailer not found")
           ELSE IF isEmptyCart(salesmanCart[key])
           THEN fail(400, "Cart is empty")
           ELSE IF \E i \in 1..Len(items) :
                      items[i].quantity > products[items[i].product_id].stock_quantity
           THEN fail(400, "Insufficient stock")
           ELSE IF orderNumberTaken(orders, number)
           THEN fail(500, "Server error")
           ELSE /\ orders' = Append(orders, order)
                /\ products' = incStock(products, items, -1)
                /\ salesmanCart' = [salesmanCart EXCEPT ![key] = NoSalesmanCart]
                /\ placed' = record(disturb(placed, orders, productsOf(items), 0), 1,
                                    stockOf(products))
                /\ res' = Resp("salesman.place-order", 201, None)
        /\ UNCHANGED <<cart, connections, retailers, today, reqs>>

\* order.status = status; await order.save(): a document that was modified is written
\* with updatedAt set to the time of the save (timestamps: true)
saveStatus(order, status, now) ==
    IF order.status = status THEN order
    ELSE [order EXCEPT !.status = status, !.updatedAt = now]

\* a mutant of the status update that gives the stock back when it cancels
UpdateStatusRestoresStock(w, id, status) ==
    /\ id \in 1..Len(orders)
    /\ IF status \notin ValidStatuses
       THEN res' = Resp("orders.status", 400, "Invalid status") /\ UNCHANGED <<orders, products>>
       ELSE IF orders[id].wholesaler_id # w
       THEN res' = Resp("orders.status", 404, "Order not found") /\ UNCHANGED <<orders, products>>
       ELSE /\ orders' = [orders EXCEPT ![id] = saveStatus(@, status, today)]
            /\ products' = IF status = "cancelled" THEN incStock(products, orders[id].items, 1)
                           ELSE products
            /\ res' = Resp("orders.status", 200, None)
    /\ UNCHANGED <<cart, salesmanCart, connections, retailers, today, reqs, placed>>

\* a mutant of the status update that finds the order by its id alone
UpdateStatusAnyCaller(w, id, status) ==
    /\ id \in 1..Len(orders)
    /\ IF status \notin ValidStatuses
       THEN res' = Resp("orders.status", 400, "Invalid status") /\ UNCHANGED orders
       ELSE /\ orders' = [orders EXCEPT ![id] = saveStatus(@, status, today)]
            /\ res' = Resp("orders.status", 200, None)
    /\ UNCHANGED <<products, cart, salesmanCart, connections, retailers, today, reqs, placed>>

\* PUT /orders/:id/status (wholesaler)
UpdateStatus(w, id, status) ==
    /\ id \in 1..Len(orders)
    /\ IF status \notin ValidStatuses
       THEN res' = Resp("orders.status", 400, "Invalid status") /\ UNCHANGED orders
       ELSE IF orders[id].wholesaler_id # w
       THEN res' = Resp("orders.status", 404, "Order not found") /\ UNCHANGED orders
       ELSE /\ orders' = [orders EXCEPT ![id] = saveStatus(@, status, today)]
            /\ res' = Resp("orders.status", 200, None)
    /\ UNCHANGED <<products, cart, salesmanCart, connections, retailers, today, reqs, placed>>

\* a mutant of the cancel handler that does not restore the stock
CancelOrderNoRestore(r, id) ==
    /\ r \in retailers
    /\ id \in 1..Len(orders)
    /\ IF orders[id].retailer_id # r
       THEN /\ res' = Resp("orders.cancel", 404, "Order not found")
            /\ UNCHANGED <<orders, products, placed>>
       ELSE IF orders[id].status # "pending"
       THEN /\ res' = Resp("orders.cancel", 400, "Can only cancel pending orders")
            /\ UNCHANGED <<orders, products, placed>>
       ELSE /\ orders' = [orders EXCEPT ![id] = saveStatus(@, "cancelled", today)]
            /\ products' = products
            /\ placed' = disturb(placed, orders, productsOf(orders[id].items), id)
            /\ res' = Resp("orders.cancel", 200, None)
    /\ UNCHANGED <<cart, salesmanCart, connections, retailers, today, reqs>>

\* a mutant of the cancel handler that lacks the status check
CancelOrderAnyStatus(r, id) ==
    /\ r \in retailers
    /\ id \in 1..Len(orders)
    /\ IF orders[id].retailer_id # r
       THEN /\ res' = Resp("orders.cancel", 404, "Order not found")
            /\ UNCHANGED <<orders, products, placed>>
       ELSE /\ orders' = [orders EXCEPT ![id] = saveStatus(@, "cancelled", today)]
            /\ products' = incStock(products, orders[id].items, 1)
            /\ placed' = disturb(placed, orders, productsOf(orders[id].items), id)
            /\ res' = Resp("orders.cancel", 200, None)
    /\ UNCHANGED <<cart, salesmanCart, connections, retailers, today, reqs>>

\* PUT /orders/:id/cancel (retailer)
CancelOrder(r, id) ==
    /\ r \in retailers
    /\ id \in 1..Len(orders)
    /\ IF orders[id].retailer_id # r
       THEN /\ res' = Resp("orders.cancel", 404, "Order not found")
            /\ UNCHANGED <<orders, products, placed>>
       ELSE IF orders[id].status # "pending"
       THEN /\ res' = Resp("orders.cancel", 400, "Can only cancel pending orders")
            /\ UNCHANGED <<orders, products, placed>>
       ELSE /\ orders' = [orders EXCEPT ![id] = saveStatus(@, "cancelled", today)]
            /\ products' = incStock(products, orders[id].items, 1)
            /\ placed' = disturb(placed, orders, productsOf(orders[id].items), id)
            /\ res' = Resp("orders.cancel", 200, None)
    /\ UNCHANGED <<cart, salesmanCart, connections, retailers, today, reqs>>

-----------------------------------------------------------------------------
(* The order specification: one retailer and one salesman acting for it fill *)
(* their carts and place orders, the retailer cancels; every handler is one  *)
(* step                                                                      *)

Init ==
    /\ products = [p \in ProductIds |-> ProductDoc(p, DefaultTiers, MaxQty)]
    /\ connections = {ConnectionDoc(1, "w1", "r1", "approved", "wholesaler", None)}
    /\ retailers = RetailerIds
    /\ reqs = <<>>
    /\ InitRest

\* the orders a placement from r's cart would create
groupCount(r) == Len(wholesalerKeys(cart[r].items, products))

Next ==
    \/ \E p \in {"p1", "p2"}, q \in 1..MaxQty : CartAdd("r1", p, q)
    \/ \E q \in 1..MaxQty : SalesmanCartAdd("s1", "r1", "p1", q)
    \/ Len(orders) + groupCount("r1") <= MaxOrders /\ PlaceOrder("r1")
    \/ Len(orders) < MaxOrders /\ SalesmanPlaceOrder("s1", "r1")
    \/ \E r \in RetailerIds, id \in 1..Len(orders) : CancelOrder(r, id)

Spec == Init /\ [][Next]_vars

\* the orders created by the step: the new tail of the collection
created == {i \in 1..Len(orders') : i > Len(orders)}

RECURSIVE sumOver(_, _)
sumOver(f, S) ==
    IF S = {} THEN 0
    ELSE LET x == CHOOSE y \in S : TRUE IN f[x] + sumOver(f, S \ {x})

placesOk(r) == PlaceOrder(r) /\ res'.code = 201
salesmanPlacesOk(s, r) == SalesmanPlaceOrder(s, r) /\ res'.code = 201

\* C2: a successful placement, by the retailer or by the salesman, takes from the stock
\* of every product exactly the quantity of the product's cart line, and leaves the
\* stock of the products that are not in the cart as it was.
C2_StockDecrement ==
    [][/\ \A r \in RetailerIds : placesOk(r) =>
            \A p \in ProductIds : products'[p].stock_quantity =
                products[p].stock_quantity - quantityOf(cart[r].items, p)
       /\ \A s \in Salesmen, r \in RetailerIds : salesmanPlacesOk(s, r) =>
            \A p \in ProductIds : products'[p].stock_quantity =
                products[p].stock_quantity - quantityOf(salesmanCart[<<s, r>>].items, p)
      ]_vars

\* both paths have placed an order, one product was taken from and another was not
C2_Witness ==
    /\ res.code = 201
    /\ \E i \in 1..Len(orders) : orders[i].placed_by_salesman = None
    /\ \E i \in 1..Len(orders) : orders[i].placed_by_salesman # None
    /\ \E p, q \in ProductIds :
          products[p].stock_quantity < MaxQty /\ products[q].stock_quantity = MaxQty

\* C3, as claimed: the total_amount of the orders of one successful placement add up to
\* the total the cart view reported before the placement.
C3_TotalsEqualCartTotal ==
    [][/\ \A r \in RetailerIds : placesOk(r) =>
            sumOver([i \in created |-> orders'[i].total_amount], created)
                = cartTotal(cart[r].items)
       /\ \A s \in Salesmen, r \in RetailerIds : salesmanPlacesOk(s, r) =>
            sumOver([i \in created |-> orders'[i].total_amount], created)
                = salesmanCartTotal(salesmanCart[<<s, r>>].items)
      ]_vars

\* C3, amended: the subtotals of the orders of one successful placement add up to the
\* cart total reported before the placement, and their total_amount add up to that
\* cart total plus the orders' gst_amount.
C3_SubtotalsEqualCartTotal ==
    [][/\ \A r \in RetailerIds : placesOk(r) =>
            /\ sumOver([i \in created |-> orders'[i].subtotal], created)
                    = cartTotal(cart[r].items)
            /\ sumOver([i \in created |-> orders'[i].total_amount], created)
                    = cartTotal(cart[r].items)
                        + sumOver([i \in created |-> orders'[i].gst_amount], created)
       /\ \A s \in Salesmen, r \in RetailerIds : salesmanPlacesOk(s, r) =>
            /\ sumOver([i \in created |-> orders'[i].subtotal], created)
                    = salesmanCartTotal(salesmanCart[<<s, r>>].items)
            /\ sumOver([i \in created |-> orders'[i].total_amount], created)
                    = salesmanCartTotal(salesmanCart[<<s, r>>].items)
                        + sumOver([i \in created |-> orders'[i].gst_amount], created)
      ]_vars

\* one placement has made two orders, one with GST and one without
C3_Witness ==
    /\ res = Resp("orders.place", 201, None)
    /\ Len(orders) = 2
    /\ orders[1].order_number.sequence = 1 /\ orders[2].order_number.sequence = 2
    /\ orders[1].retailer_id = orders[2].retailer_id
    /\ orders[1].wholesaler_id # orders[2].wholesaler_id
    /\ placed[1].pre = placed[2].pre
    /\ \E i, j \in 1..2 : orders[i].gst_amount > 0 /\ orders[j].gst_amount = 0

\* C7, as claimed: no product's stock_quantity is ever negative.
C7_StockNeverNegative ==
    \A p \in ProductIds : products[p].stock_quantity >= 0

-----------------------------------------------------------------------------
(* The status specification: orders are placed, the wholesalers set their   *)
(* status and the retailers cancel them                                     *)

StatusInputs == ValidStatuses \cup {"returned"}

NextStatus ==
    \/ \E p \in {"p1", "p2"} : CartAdd("r1", p, MaxQty)
    \/ SalesmanCartAdd("s1", "r1", "p1", MaxQty)
    \/ Len(orders) + groupCount("r1") <= MaxStatusOrders /\ PlaceOrder("r1")
    \/ Len(orders) < MaxStatusOrders /\ SalesmanPlaceOrder("s1", "r1")
    \/ \E w \in Wholesalers, id \in 1..Len(orders), st \in StatusInputs :
            UpdateStatus(w, id, st)
    \/ \E r \in RetailerIds, id \in 1..Len(orders) :
            /\ \A p \in ProductIds :
                  products[p].stock_quantity + quantityOf(orders[id].items, p) <= 2 * MaxQty
            /\ CancelOrder(r, id)

SpecStatus == Init /\ [][NextStatus]_vars

\* C4: an order placed and then cancelled by its retailer while pending, with no other
\* order's placement or cancel on its products in between, leaves the stock of every
\* product of the order at its value before the placement.
C4_PlaceCancelRoundTrip ==
    \A id \in 1..Len(orders) :
        (placed[id].clean /\ placed[id].restored = 1) =>
            \A p \in productsOf(orders[id].items) :
                products[p].stock_quantity = placed[id].pre[p]

\* an order has been placed and cancelled by its retailer, nothing else in between
C4_Witness ==
    /\ res = Resp("orders.cancel", 200, None)
    /\ \E id \in 1..Len(orders) :
          /\ placed[id].clean /\ placed[id].restored = 1
          /\ orders[id].status = "cancelled"
          /\ \A p \in productsOf(orders[id].items) : placed[id].pre[p] = MaxQty

\* C5: a cancel of an order that is not pending fails with an error and changes neither
\* the order's status nor any product's stock.
C5_CancelNonPendingFails ==
    [][\A r \in RetailerIds, id \in 1..Len(orders) :
            (CancelOrder(r, id) /\ orders[id].status # "pending") =>
                /\ res'.code >= 400
                /\ orders'[id].status = orders[id].status
                /\ stockOf(products') = stockOf(products)
      ]_vars

\* the retailer of a delivered order was refused its cancel
C5_Witness ==
    /\ res = Resp("orders.cancel", 400, "Can only cancel pending orders")
    /\ \E id \in 1..Len(orders) : orders[id].status = "delivered"

LegalTransitions ==
    {<<"pending", "confirmed">>, <<"confirmed", "processing">>,
     <<"processing", "shipped">>, <<"shipped", "delivered">>,
     <<"pending", "cancelled">>}

\* C6, as claimed: an order's status changes only one step forward along pending,
\* confirmed, processing, shipped, delivered (by its wholesaler's status update), or
\* from pending to cancelled (by its retailer's cancel).
C6_OnlyLegalTransitions ==
    [][\A id \in 1..Len(orders) :
            orders'[id].status # orders[id].status =>
                /\ <<orders[id].status, orders'[id].status>> \in LegalTransitions
                /\ orders'[id].status = "cancelled" =>
                        \E r \in RetailerIds : CancelOrder(r, id)
                /\ orders'[id].status # "cancelled" =>
                        \E w \in Wholesalers : UpdateStatus(w, id, orders'[id].status)
      ]_vars

-----------------------------------------------------------------------------
(* Placements as the server runs them: a handler gives way at every await,   *)
(* so the steps of the placements in flight interleave.  reqs holds the      *)
(* requests, finished ones included; a query with populate is one read.      *)

\* no order number obtained yet
NoNumber == [date |-> -1, sequence |-> 0]

\* a placement that has read its cart and built its order data
Request(kind, retailer_id, salesman_id, groups) ==
    [kind |-> kind, retailer_id |-> retailer_id, salesman_id |-> salesman_id,
     pc |-> "number", groups |-> groups, k |-> 1, j |-> 1,
     number |-> NoNumber, numbers |-> <<>>]

\* POST /orders/place up to the first generateOrderNumber(): the cart is read and
\* grouped by wholesaler
BeginPlace(r) ==
    /\ r \in retailers
    /\ IF isEmptyCart(cart[r])
       THEN /\ res' = Resp("orders.place", 400, "Cart is empty")
            /\ UNCHANGED reqs
       ELSE /\ reqs' = Append(reqs, Request("retailer", r, None,
                                            ordersByWholesaler(cart[r].items, products)))
            /\ UNCHANGED res
    /\ UNCHANGED <<products, cart, salesmanCart, orders, connections, retailers, today,
                   placed>>

\* POST /place-order/:retailer_id of the salesman up to the count of today's orders:
\* permission, connection, cart, stock check and totals
BeginSalesmanPlace(s, retailer_id) ==
    LET salesman == Salesman(s)
        key == <<s, retailer_id>>
        items == salesmanCart[key].items
        lines == orderItems(items, products)
        orderData == [wholesaler_id |-> salesman.wholesaler_id, items |-> lines,
                      subtotal |-> sumSubtotal(lines), gst_amount |-> sumGst(lines)]
        fail(code, error) ==
            /\ res' = Resp("salesman.place-order", code, error)
            /\ UNCHANGED reqs
    IN  /\ IF ~salesman.permissions.can_place_orders
           THEN fail(403, "permission")
           ELSE IF ~approvedConnection(connections, salesman.wholesaler_id, retailer_id)
           THEN fail(400, "not connected")
           ELSE IF retailer_id \notin retailers
           THEN fail(404, "Retailer not found")
           ELSE IF isEmptyCart(salesmanCart[key])
           THEN fail(400, "Cart is empty")
           ELSE IF \E i \in 1..Len(items) :
                      items[i].quantity > products[items[i].product_id].stock_quantity
           THEN fail(400, "Insufficient stock")
           ELSE /\ reqs' = Append(reqs, Request("salesman", retailer_id, s, <<orderData>>))
                /\ UNCHANGED res
        /\ UNCHANGED <<products, cart, salesmanCart, orders, connections, retailers, today,
                       placed>>

\* the response that ends request i
respond(i, code, error) ==
    /\ reqs' = [reqs EXCEPT ![i].pc = "done"]
    /\ res' = Resp(IF reqs[i].kind = "retailer" THEN "orders.place"
                   ELSE "salesman.place-order", code, error)

\* await Order.countDocuments(...): the request obtains its order number
CountOrders(i) ==
    LET number == generateOrderNumber(orders, today)
    IN  /\ reqs[i].pc = "number"
        /\ reqs' = [reqs EXCEPT ![i].number = number,
                                ![i].numbers = Append(@, number),
                                ![i].pc = "save"]
        /\ UNCHANGED <<products, cart, salesmanCart, orders, connections, retailers, today,
                       res, placed>>

\* a mutant of the save step that takes a refused save for a saved order
SaveOrderIgnoresRefusal(i) ==
    LET q == reqs[i]
        order == OrderDoc(q.number, q.retailer_id, q.groups[q.k].wholesaler_id,
                          q.salesman_id, q.groups[q.k], today)
    IN  /\ q.pc = "save"
        /\ orders' = IF orderNumberTaken(orders, q.number) THEN orders
                     ELSE Append(orders, order)
        /\ reqs' = [reqs EXCEPT ![i].pc = "stock", ![i].j = 1]
        /\ UNCHANGED <<products, cart, salesmanCart, connections, retailers, today, placed,
                       res>>

\* await order.save(): the unique index refuses a number that is taken and the
\* handler's catch answers 500
SaveOrder(i) ==
    LET q == reqs[i]
        order == OrderDoc(q.number, q.retailer_id, q.groups[q.k].wholesaler_id,
                          q.salesman_id, q.groups[q.k], today)
    IN  /\ q.pc = "save"
        /\ IF orderNumberTaken(orders, q.number)
           THEN respond(i, 500, "Server error") /\ UNCHANGED orders
           ELSE /\ orders' = Append(orders, order)
                /\ reqs' = [reqs EXCEPT ![i].pc = "stock", ![i].j = 1]
                /\ UNCHANGED res
        /\ UNCHANGED <<products, cart, salesmanCart, connections, retailers, today, placed>>

\* a mutant of the stock step that goes on to clear the cart after the first wholesaler
UpdateStockThenClear(i) ==
    LET q == reqs[i]
        items == q.groups[q.k].items
    IN  /\ q.pc = "stock"
        /\ products' = incStock(products, <<items[q.j]>>, -1)
        /\ reqs' = IF q.j < Len(items) THEN [reqs EXCEPT ![i].j = q.j + 1]
                   ELSE [reqs EXCEPT ![i].pc = "clear"]
        /\ UNCHANGED <<cart, salesmanCart, orders, connections, retailers, today, res,
                       placed>>

\* await Product.findByIdAndUpdate(...) for line j of the order just saved; after the
\* last line the retailer's loop goes on to its next wholesaler
UpdateStock(i) ==
    LET q == reqs[i]
        items == q.groups[q.k].items
    IN  /\ q.pc = "stock"
        /\ products' = incStock(products, <<items[q.j]>>, -1)
        /\ reqs' = IF q.j < Len(items) THEN [reqs EXCEPT ![i].j = q.j + 1]
                   ELSE IF q.k < Len(q.groups)
                   THEN [reqs EXCEPT ![i].k = q.k + 1, ![i].pc = "number"]
                   ELSE [reqs EXCEPT ![i].pc = "clear"]
        /\ UNCHANGED <<cart, salesmanCart, orders, connections, retailers, today, res,
                       placed>>

\* cart.items = []; await cart.save() of the retailer, SalesmanCart.findByIdAndDelete
\* of the salesman; then the 201
ClearCart(i) ==
    LET q == reqs[i]
    IN  /\ q.pc = "clear"
        /\ IF q.kind = "retailer"
           THEN /\ cart' = [cart EXCEPT ![q.retailer_id].items = <<>>]
                /\ UNCHANGED salesmanCart
           ELSE /\ salesmanCart' = [salesmanCart EXCEPT
                                        ![<<q.salesman_id, q.retailer_id>>] = NoSalesmanCart]
                /\ UNCHANGED cart
        /\ respond(i, 201, None)
        /\ UNCHANGED <<products, orders, connections, retailers, today, placed>>

NextConc ==
    \/ \E p \in {"p1", "p2"} : CartAdd("r1", p, MaxQty)
    \/ SalesmanCartAdd("s1", "r1", "p1", MaxQty)
    \/ Len(reqs) < MaxRequests /\ BeginPlace("r1")
    \/ Len(reqs) < MaxRequests /\ BeginSalesmanPlace("s1", "r1")
    \/ \E i \in 1..Len(reqs) : CountOrders(i)
    \/ \E i \in 1..Len(reqs) : SaveOrder(i)
    \/ \E i \in 1..Len(reqs) : UpdateStock(i)
    \/ \E i \in 1..Len(reqs) : ClearCart(i)

SpecConc == Init /\ [][NextConc]_vars

\* C8, as claimed: the order numbers obtained for any two order creations are
\* distinct, also when the creations belong to placements that run concurrently.
C8_DistinctOrderNumbers ==
    \A a, b \in 1..Len(reqs) :
        \A m \in 1..Len(reqs[a].numbers), n \in 1..Len(reqs[b].numbers) :
            (a # b \/ m # n) => reqs[a].numbers[m] # reqs[b].numbers[n]

-----------------------------------------------------------------------------
(* Connections (the connection routes of routes/connections.js, add-retailer *)
(* of routes/wholesalers.js and of the salesman routes)                      *)

\* the result of a query that finds no document
NoConnection == ConnectionDoc(0, None, None, "none", None, None)

\* the documents of the pair (wholesaler_id, retailer_id)
connectionsOf(conns, w, r) == {c \in conns : c.wholesaler_id = w /\ c.retailer_id = r}

\* Connection.findOne({wholesaler_id, retailer_id}): a document of the pair, or null
findOne(conns, w, r) ==
    IF connectionsOf(conns, w, r) = {} THEN {NoConnection} ELSE connectionsOf(conns, w, r)

\* Connection.findById(connectionId)
findById(conns, id) ==
    IF \E c \in conns : c.id = id THEN {c \in conns : c.id = id} ELSE {NoConnection}

\* the _id of a new document, which no request sees before the document is saved:
\* the least id that no document has and that no request in flight holds
newConnectionId(conns, rs) ==
    LET used == {c.id : c \in conns} \cup {plan.doc.id : plan \in BagToSet(rs)}
    IN  CHOOSE id \in 1..(Cardinality(used) + 1) :
            id \notin used /\ \A smaller \in 1..(id - 1) : smaller \in used

\* a mutant of the insert without the unique index
insertConnectionNoIndex(conns, doc) ==
    [connections |-> conns \cup {doc}, threw |-> FALSE]

\* connection.save() of a new document: the unique index on (wholesaler_id,
\* retailer_id) refuses a second document of the pair
insertConnection(conns, doc) ==
    IF connectionsOf(conns, doc.wholesaler_id, doc.retailer_id) # {}
    THEN [connections |-> conns, threw |-> TRUE]
    ELSE [connections |-> conns \cup {doc}, threw |-> FALSE]

\* what a handler does after its queries: respond at once, insert doc, or update by
\* doc.id the paths the handler has modified, status and requested_by
Plan(op, pc, code, error, doc) ==
    [op |-> op, pc |-> pc, code |-> code, error |-> error, doc |-> doc]

\* a mutant of POST /request that does not look at the existing connection
requestPlanNoExisting(existingConnection, r, wholesaler_id) ==
    Plan("connections.request", "insert", 201, None,
         ConnectionDoc(0, wholesaler_id, r, "pending", "retailer", None))

\* POST /request after Connection.findOne
requestPlan(existingConnection, r, wholesaler_id) ==
    IF existingConnection.status = "approved"
    THEN Plan("connections.request", "respond", 400,
              "You are already connected with this wholesaler", NoConnection)
    ELSE IF existingConnection.status = "pending"
    THEN Plan("connections.request", "respond", 400,
              "Connection request already pending", NoConnection)
    ELSE IF existingConnection.status = "rejected"
    THEN Plan("connections.request", "update", 200, None,
              [NoConnection EXCEPT !.id = existingConnection.id,
                                   !.status = "pending", !.requested_by = "retailer"])
    ELSE Plan("connections.request", "insert", 201, None,
              ConnectionDoc(0, wholesaler_id, r, "pending", "retailer", None))

\* await connection.save(): an insert, or an update by _id that throws when the
\* document is gone; the handler's catch answers 500
saveConnection(conns, rs, plan) ==
    IF plan.pc = "insert"
    THEN LET ins == insertConnection(conns, [plan.doc EXCEPT
                                                !.id = newConnectionId(conns, rs)])
         IN  [connections |-> ins.connections,
              code |-> IF ins.threw THEN 500 ELSE plan.code]
    ELSE IF \E c \in conns : c.id = plan.doc.id
    THEN [connections |->
            {IF c.id = plan.doc.id
             THEN [c EXCEPT !.status = plan.doc.status,
                            !.requested_by = plan.doc.requested_by]
             ELSE c : c \in conns},
          code |-> plan.code]
    ELSE [connections |-> conns, code |-> 500]

\* the handler's queries and its save without another request in between
perform(plan) ==
    LET saved == saveConnection(connections, reqs, plan)
    IN  IF plan.pc = "respond"
        THEN /\ res' = Resp(plan.op, plan.code, plan.error)
             /\ UNCHANGED connections
        ELSE /\ connections' = saved.connections
             /\ res' = Resp(plan.op, saved.code,
                            IF saved.code = 500 THEN "Server error" ELSE None)

\* the handler's queries; its save is a later step
begin(plan) ==
    IF plan.pc = "respond"
    THEN res' = Resp(plan.op, plan.code, plan.error) /\ UNCHANGED reqs
    ELSE reqs' = reqs (+) SetToBag({plan}) /\ UNCHANGED res

\* POST /request up to the save
requestPlans(r, wholesaler_id) ==
    IF wholesaler_id \notin Wholesalers
    THEN {Plan("connections.request", "respond", 404, "Wholesaler not found",
               NoConnection)}
    ELSE {requestPlan(existingConnection, r, wholesaler_id) :
            existingConnection \in findOne(connections, wholesaler_id, r)}

\* POST /add-retailer of the wholesaler up to connection.save(): r stands for the
\* email, phone and GST number, each unique among the retailers
wholesalerAddPlan(w, r) ==
    IF r \in retailers
    THEN Plan("wholesalers.add-retailer", "respond", 400, "already registered",
              NoConnection)
    ELSE Plan("wholesalers.add-retailer", "insert", 201, None,
              ConnectionDoc(0, w, r, "approved", "wholesaler", None))

\* POST /add-retailer of the salesman up to connection.save()
salesmanAddPlan(s, r) ==
    IF r \in retailers /\ connectionsOf(connections, Salesman(s).wholesaler_id, r) # {}
    THEN Plan("salesman.add-retailer", "respond", 400,
              "This retailer is already connected or has a pending request",
              NoConnection)
    ELSE Plan("salesman.add-retailer", "insert", 201, None,
              ConnectionDoc(0, Salesman(s).wholesaler_id, r, "pending", "salesman", s))

\* the retailer collection after add-retailer's queries: a new retailer is saved
\* before its connection
retailerSaved(plan, r) == IF plan.pc = "respond" THEN retailers ELSE retailers \cup {r}

\* POST /request (retailer)
RequestConnection(r, wholesaler_id) ==
    /\ r \in retailers
    /\ \E plan \in requestPlans(r, wholesaler_id) : perform(plan)
    /\ UNCHANGED <<products, cart, salesmanCart, orders, retailers, today, reqs, placed>>

\* POST /add-retailer (wholesaler)
WholesalerAddRetailer(w, r) ==
    /\ perform(wholesalerAddPlan(w, r))
    /\ retailers' = retailerSaved(wholesalerAddPlan(w, r), r)
    /\ UNCHANGED <<products, cart, salesmanCart, orders, today, reqs, placed>>

\* POST /add-retailer (salesman)
SalesmanAddRetailer(s, r) ==
    /\ perform(salesmanAddPlan(s, r))
    /\ retailers' = retailerSaved(salesmanAddPlan(s, r), r)
    /\ UNCHANGED <<products, cart, salesmanCart, orders, today, reqs, placed>>

\* PUT /:connectionId/approve (wholesaler)
ApproveConnection(w, connectionId) ==
    /\ \E connection \in findById(connections, connectionId) :
          IF connection = NoConnection
          THEN /\ res' = Resp("connections.approve", 404, "Connection not found")
               /\ UNCHANGED connections
          ELSE IF connection.wholesaler_id # w
          THEN /\ res' = Resp("connections.approve", 403, "Unauthorized")
               /\ UNCHANGED connections
          ELSE IF connection.status = "approved"
          THEN /\ res' = Resp("connections.approve", 400, "Connection already approved")
               /\ UNCHANGED connections
          ELSE /\ connections' = (connections \ {connection}) \cup
                                    {[connection EXCEPT !.status = "approved"]}
               /\ res' = Resp("connections.approve", 200, None)
    /\ UNCHANGED <<products, cart, salesmanCart, orders, retailers, today, reqs, placed>>

\* PUT /:connectionId/reject (wholesaler)
RejectConnection(w, connectionId) ==
    /\ \E connection \in findById(connections, connectionId) :
          IF connection = NoConnection
          THEN /\ res' = Resp("connections.reject", 404, "Connection not found")
               /\ UNCHANGED connections
          ELSE IF connection.wholesaler_id # w
          THEN /\ res' = Resp("connections.reject", 403, "Unauthorized")
               /\ UNCHANGED connections
          ELSE /\ connections' = (connections \ {connection}) \cup
                                    {[connection EXCEPT !.status = "rejected"]}
               /\ res' = Resp("connections.reject", 200, None)
    /\ UNCHANGED <<products, cart, salesmanCart, orders, retailers, today, reqs, placed>>

\* DELETE /:connectionId (the wholesaler or the retailer of the connection, or a
\* salesman of the wholesaler with can_delete_retailers)
DeleteConnection(userId, connectionId) ==
    /\ \E connection \in findById(connections, connectionId) :
          LET isAuthorized ==
                \/ connection.wholesaler_id = userId
                \/ connection.retailer_id = userId
                \/ /\ userId \in Salesmen
                   /\ Salesman(userId).wholesaler_id = connection.wholesaler_id
                   /\ Salesman(userId).permissions.can_delete_retailers
          IN  IF connection = NoConnection
              THEN /\ res' = Resp("connections.delete", 404, "Connection not found")
                   /\ UNCHANGED connections
              ELSE IF ~isAuthorized
              THEN /\ res' = Resp("connections.delete", 403, "no permission")
                   /\ UNCHANGED connections
              ELSE /\ connections' = {c \in connections : c.id # connectionId}
                   /\ res' = Resp("connections.delete", 200, None)
    /\ UNCHANGED <<products, cart, salesmanCart, orders, retailers, today, reqs, placed>>

-----------------------------------------------------------------------------
(* The connection specification: every handler is one step.  Retailer r1 is  *)
(* registered, the others come into being through add-retailer.             *)

InitConn ==
    /\ products = [p \in ProductIds |-> ProductDoc(p, DefaultTiers, MaxQty)]
    /\ connections = {}
    /\ retailers = {"r1"}
    /\ reqs = EmptyBag
    /\ InitRest

\* the _id values a client may send: those in use and one that is not
ConnectionIds == 1..(Cardinality(connections) + 1)

Users == Wholesalers \cup RetailerIds \cup Salesmen

NextConn ==
    \/ \E r \in RetailerIds, w \in {"w1", None} : RequestConnection(r, w)
    \/ \E r \in RetailerIds : WholesalerAddRetailer("w1", r)
    \/ \E s \in Salesmen, r \in RetailerIds : SalesmanAddRetailer(s, r)
    \/ \E w \in Wholesalers, id \in ConnectionIds : ApproveConnection(w, id)
    \/ \E w \in Wholesalers, id \in ConnectionIds : RejectConnection(w, id)
    \/ \E u \in Users, id \in ConnectionIds : DeleteConnection(u, id)

SpecConn == InitConn /\ [][NextConn]_vars

\* C9: a retailer's connection request for a pair whose connection is approved or
\* pending is answered 400 with the conflict's message and changes no record; for a
\* pair whose connection is rejected it sets that same record to pending with
\* requested_by retailer, and the collection has no record more than before.
C9_RequestOnExistingConnection ==
    [][\A r \in RetailerIds, w \in Wholesalers : RequestConnection(r, w) =>
            \A c \in connectionsOf(connections, w, r) :
                /\ c.status = "approved" =>
                      /\ res' = Resp("connections.request", 400,
                                     "You are already connected with this wholesaler")
                      /\ connections' = connections
                /\ c.status = "pending" =>
                      /\ res' = Resp("connections.request", 400,
                                     "Connection request already pending")
                      /\ connections' = connections
                /\ c.status = "rejected" =>
                      /\ res' = Resp("connections.request", 200, None)
                      /\ connections' = (connections \ {c}) \cup
                            {[c EXCEPT !.status = "pending", !.requested_by = "retailer"]}
                      /\ Cardinality(connections') = Cardinality(connections)
      ]_vars

\* a retailer that a salesman added and the wholesaler rejected has requested again:
\* the salesman's record is pending, now requested by the retailer; another pair's
\* approved connection stands
C9_Witness ==
    /\ res = Resp("connections.request", 200, None)
    /\ \E c \in connections :
          c.status = "pending" /\ c.requested_by = "retailer" /\ c.salesman_id = "s1"
    /\ \E c \in connections : c.status = "approved"

-----------------------------------------------------------------------------
(* The connection specification with the handlers' queries and their save as *)
(* separate steps, so that two handlers may both find no connection of a     *)
(* pair before either has saved its own.  Approve, reject and delete write   *)
(* one document by its _id and stay one step.                                *)

\* POST /request: the queries
RequestFind(r, wholesaler_id) ==
    /\ r \in retailers
    /\ \E plan \in requestPlans(r, wholesaler_id) : begin(plan)
    /\ UNCHANGED <<products, cart, salesmanCart, orders, connections, retailers, today,
                   placed>>

\* POST /add-retailer (wholesaler): the checks and retailer.save()
WholesalerAddFind(w, r) ==
    /\ begin(wholesalerAddPlan(w, r))
    /\ retailers' = retailerSaved(wholesalerAddPlan(w, r), r)
    /\ UNCHANGED <<products, cart, salesmanCart, orders, connections, today, placed>>

\* POST /add-retailer (salesman): the queries and retailer.save()
SalesmanAddFind(s, r) ==
    /\ begin(salesmanAddPlan(s, r))
    /\ retailers' = retailerSaved(salesmanAddPlan(s, r), r)
    /\ UNCHANGED <<products, cart, salesmanCart, orders, connections, today, placed>>

\* await connection.save() of a request in flight and its response
SaveConnection(plan) ==
    LET saved == saveConnection(connections, reqs, plan)
    IN  /\ BagIn(plan, reqs)
        /\ connections' = saved.connections
        /\ res' = Resp(plan.op, saved.code,
                       IF saved.code = 500 THEN "Server error" ELSE None)
        /\ reqs' = reqs (-) SetToBag({plan})
        /\ UNCHANGED <<products, cart, salesmanCart, orders, retailers, today, placed>>

NextConnRace ==
    \/ BagCardinality(reqs) < MaxInFlight /\
            \E r \in RetailerIds : RequestFind(r, "w1")
    \/ BagCardinality(reqs) < MaxInFlight /\
            \E r \in RetailerIds : WholesalerAddFind("w1", r)
    \/ BagCardinality(reqs) < MaxInFlight /\
            \E s \in Salesmen, r \in RetailerIds : SalesmanAddFind(s, r)
    \/ \E plan \in BagToSet(reqs) : SaveConnection(plan)
    \/ \E c \in connections : ApproveConnection(c.wholesaler_id, c.id)
    \/ \E c \in connections : RejectConnection(c.wholesaler_id, c.id)
    \/ \E c \in connections : DeleteConnection(c.retailer_id, c.id)

SpecConnRace == InitConn /\ [][NextConnRace]_vars

\* C10: in every reachable state the collection holds at most one Connection record
\* per (wholesaler, retailer) pair.
C10_OneConnectionPerPair ==
    \A c, d \in connections :
        (c.wholesaler_id = d.wholesaler_id /\ c.retailer_id = d.retailer_id) => c = d

\* the salesman's add-retailer and the retailer's request both found no connection of
\* the pair; the retailer's record was saved first and the salesman's save refused
C10_Witness ==
    /\ res = Resp("salesman.add-retailer", 500, "Server error")
    /\ \E c \in connections :
          c.wholesaler_id = "w1" /\ c.requested_by = "retailer" /\ c.status = "pending"

-----------------------------------------------------------------------------
(* Product listing (GET / of routes/products.js) over the connection         *)
(* specification                                                             *)

\* Product.category and the words of the text index, per product
CategoryOf(p) == IF p = "p3" THEN "snacks" ELSE "grains"
WordsOf(p) == IF p = "p1" THEN {"rice"} ELSE IF p = "p2" THEN {"rice", "flour"} ELSE {"chips"}

Categories == {CategoryOf(p) : p \in ProductIds}
SearchTerms == UNION {WordsOf(p) : p \in ProductIds}

\* req.user.userType of the token
userTypeOf(userId) ==
    IF userId \in Wholesalers THEN "wholesaler"
    ELSE IF userId \in Salesmen THEN "salesman" ELSE "retailer"

\* the wholesaler_id condition of the query: any, one id, or $in a set of ids
wholesalerCondition(userId, wholesaler_id) ==
    LET connectedWholesalerIds ==
            {c.wholesaler_id : c \in {d \in connections :
                                        d.retailer_id = userId /\ d.status = "approved"}}
        afterConnections ==
            IF userTypeOf(userId) = "retailer" THEN connectedWholesalerIds ELSE Wholesalers
    IN  IF wholesaler_id # None THEN {wholesaler_id} ELSE afterConnections

\* Product.find(query)
findProducts(prods, owners, category, search) ==
    {p \in DOMAIN prods :
        /\ prods[p].is_active
        /\ prods[p].wholesaler_id \in owners
        /\ category # None => CategoryOf(p) = category
        /\ search # None => search \in WordsOf(p)}

\* GET / (list products); a filter that is None is absent from the query string
ListProducts(userId, category, wholesaler_id, search) ==
    LET noConnections ==
            /\ userTypeOf(userId) = "retailer"
            /\ ~\E c \in connections : c.retailer_id = userId /\ c.status = "approved"
        found == IF noConnections THEN {}
                 ELSE findProducts(products, wholesalerCondition(userId, wholesaler_id),
                                   category, search)
    IN  /\ res' = [op |-> "products.list", code |-> 200, error |-> None,
                   userId |-> userId, products |-> found]
        /\ UNCHANGED <<products, cart, salesmanCart, orders, connections, retailers,
                       today, reqs, placed>>

NextBrowse ==
    \/ NextConn
    \/ \E u \in Users, category \in Categories \cup {None},
          w \in Wholesalers \cup {None}, search \in SearchTerms \cup {None} :
            ListProducts(u, category, w, search)

SpecBrowse == InitConn /\ [][NextBrowse]_vars

\* C11, as claimed: every product a retailer's listing returns is owned by a
\* wholesaler that has an approved connection with that retailer, whatever filters
\* the retailer supplies.
C11_ListOnlyConnected ==
    [][\A r \in RetailerIds, category \in Categories \cup {None},
          w \in Wholesalers \cup {None}, search \in SearchTerms \cup {None} :
            ListProducts(r, category, w, search) =>
                \A p \in res'.products :
                    approvedConnection(connections, products[p].wholesaler_id, r)
      ]_vars

-----------------------------------------------------------------------------
(* The totals specification: carts with several lines of one wholesaler, so  *)
(* that an order's sums run over more than one line.  No status is set back *)
(* to pending here, which would let cancels restore the stock without limit. *)

NextTotals ==
    \/ \E p \in {"p1", "p3"} : CartAdd("r1", p, MaxQty)
    \/ SalesmanCartAdd("s1", "r1", "p1", MaxQty)
    \/ Len(orders) < MaxStatusOrders /\ PlaceOrder("r1")
    \/ Len(orders) < MaxStatusOrders /\ SalesmanPlaceOrder("s1", "r1")
    \/ \E id \in 1..Len(orders), st \in ValidStatuses \ {"pending"} :
            UpdateStatus(orders[id].wholesaler_id, id, st)
    \/ \E id \in 1..Len(orders) : CancelOrder("r1", id)

SpecTotals == Init /\ [][NextTotals]_vars

\* sum of quantity * unit_price over the lines
RECURSIVE lineSubtotals(_)
lineSubtotals(items) ==
    IF items = <<>> THEN 0
    ELSE items[1].quantity * items[1].unit_price + lineSubtotals(Tail(items))

\* sum of gst_amount over the lines
RECURSIVE lineGsts(_)
lineGsts(items) ==
    IF items = <<>> THEN 0 ELSE items[1].gst_amount + lineGsts(Tail(items))

\* C12: every order in the collection, whatever its status, has on each line
\* total_price = quantity * unit_price + gst_amount, subtotal = the lines' quantity *
\* unit_price added up, gst_amount = the lines' gst_amount added up, and
\* total_amount = subtotal + gst_amount.
C12_OrderTotals ==
    \A id \in 1..Len(orders) :
        LET o == orders[id]
        IN  /\ \A i \in 1..Len(o.items) :
                  o.items[i].total_price =
                      o.items[i].quantity * o.items[i].unit_price + o.items[i].gst_amount
            /\ o.subtotal = lineSubtotals(o.items)
            /\ o.gst_amount = lineGsts(o.items)
            /\ o.total_amount = o.subtotal + o.gst_amount

\* an order of two lines with GST whose status its wholesaler has set after the
\* placement
C12_Witness ==
    /\ res = Resp("orders.status", 200, None)
    /\ \E id \in 1..Len(orders) :
          /\ Len(orders[id].items) = 2
          /\ orders[id].gst_amount > 0
          /\ orders[id].total_amount > orders[id].subtotal
          /\ orders[id].status = "delivered"

-----------------------------------------------------------------------------
(* The gate specification: the carts are filled and placed while the         *)
(* wholesaler rejects, approves and removes the retailer's connection and    *)
(* the retailer requests it again                                            *)

NextGate ==
    \/ CartAdd("r1", "p1", MaxQty)
    \/ SalesmanCartAdd("s1", "r1", "p1", MaxQty)
    \/ Len(orders) < MaxOrders /\ PlaceOrder("r1")
    \/ Len(orders) < MaxOrders /\ \E r \in RetailerIds : SalesmanPlaceOrder("s1", r)
    \/ \E c \in connections : ApproveConnection(c.wholesaler_id, c.id)
    \/ \E c \in connections : RejectConnection(c.wholesaler_id, c.id)
    \/ \E c \in connections : DeleteConnection(c.wholesaler_id, c.id)
    \/ RequestConnection("r1", "w1")

SpecGate == Init /\ [][NextGate]_vars

\* the salesman's wholesaler and the retailer have an approved connection
connected(s, r) ==
    \E c \in connections :
        /\ c.wholesaler_id = Salesman(s).wholesaler_id
        /\ c.retailer_id = r
        /\ c.status = "approved"

\* the step leaves the orders, the stock and both carts as they were
nothingPlaced == UNCHANGED <<orders, products, cart, salesmanCart>>

\* C13, as claimed: a placement, by the retailer or by the salesman, from a missing
\* cart or a cart with zero lines fails with the empty-cart error, creates no order,
\* changes no stock and leaves the cart as it was.
C13_EmptyCartFails ==
    [][/\ \A r \in RetailerIds :
            (PlaceOrder(r) /\ (~cart[r].exists \/ cart[r].items = <<>>)) =>
                res' = Resp("orders.place", 400, "Cart is empty") /\ nothingPlaced
       /\ \A s \in Salesmen, r \in RetailerIds :
            (/\ SalesmanPlaceOrder(s, r)
             /\ (~salesmanCart[<<s, r>>].exists \/ salesmanCart[<<s, r>>].items = <<>>)) =>
                res' = Resp("salesman.place-order", 400, "Cart is empty") /\ nothingPlaced
      ]_vars

\* C13, amended: the same, where on the salesman's path the connection of the
\* salesman's wholesaler with the retailer is approved; without it the placement from
\* an empty cart fails with the not-connected error, and changes nothing either.
C13_EmptyCartFailsWhenConnected ==
    [][/\ \A r \in RetailerIds :
            (PlaceOrder(r) /\ (~cart[r].exists \/ cart[r].items = <<>>)) =>
                res' = Resp("orders.place", 400, "Cart is empty") /\ nothingPlaced
       /\ \A s \in Salesmen, r \in RetailerIds :
            (/\ SalesmanPlaceOrder(s, r)
             /\ (~salesmanCart[<<s, r>>].exists \/ salesmanCart[<<s, r>>].items = <<>>)) =>
                /\ nothingPlaced
                /\ res' = IF connected(s, r)
                          THEN Resp("salesman.place-order", 400, "Cart is empty")
                          ELSE Resp("salesman.place-order", 400, "not connected")
      ]_vars

\* the salesman, connected, places again after its cart was deleted by its first
\* placement; the retailer's cart is there with zero lines after the retailer's own
C13_Witness ==
    /\ res = Resp("salesman.place-order", 400, "Cart is empty")
    /\ connected("s1", "r1")
    /\ ~salesmanCart[<<"s1", "r1">>].exists
    /\ cart["r1"].exists /\ cart["r1"].items = <<>>

\* C14: a salesman's placement succeeds only with an approved connection between the
\* salesman's wholesaler and the retailer at that moment; without one it fails with
\* the not-connected error, creates no order, changes no stock and leaves the
\* salesman's cart as it was.
C14_PlacementNeedsApprovedConnection ==
    [][\A s \in Salesmen, r \in RetailerIds : SalesmanPlaceOrder(s, r) =>
            /\ res'.code = 201 => connected(s, r)
            /\ ~connected(s, r) =>
                  res' = Resp("salesman.place-order", 400, "not connected") /\ nothingPlaced
      ]_vars

\* the salesman's cart was filled while the connection was approved; the connection is
\* rejected now and the placement was refused, the cart still holds its line
C14_Witness ==
    /\ res = Resp("salesman.place-order", 400, "not connected")
    /\ salesmanCart[<<"s1", "r1">>].items # <<>>
    /\ \E c \in connections :
          c.wholesaler_id = "w1" /\ c.retailer_id = "r1" /\ c.status = "rejected"

\* C15, as claimed: a placement, by the retailer or by the salesman, from a cart with a
\* line whose quantity exceeds the product's stock at that moment fails, creates no
\* order and changes no stock.
C15_PlacementValidatesStock ==
    [][/\ \A r \in RetailerIds :
            (/\ PlaceOrder(r)
             /\ \E i \in 1..Len(cart[r].items) :
                    cart[r].items[i].quantity >
                        products[cart[r].items[i].product_id].stock_quantity) =>
                res'.code >= 400 /\ UNCHANGED <<orders, products>>
       /\ \A s \in Salesmen, r \in RetailerIds :
            (/\ SalesmanPlaceOrder(s, r)
             /\ \E i \in 1..Len(salesmanCart[<<s, r>>].items) :
                    salesmanCart[<<s, r>>].items[i].quantity >
                        products[salesmanCart[<<s, r>>].items[i].product_id].stock_quantity) =>
                res'.code >= 400 /\ UNCHANGED <<orders, products>>
      ]_vars

-----------------------------------------------------------------------------
(* The other cart handlers and the product update, and the cart             *)
(* specification: a retailer and a salesman add, update, remove and clear   *)
(* lines for quantities around the MOQ and the stock, while the wholesaler  *)
(* switches products off and on                                             *)

\* cart.items.filter(item => item.product_id.toString() !== product_id)
withoutProduct(items, product_id) ==
    LET other(item) == item.product_id # product_id IN SelectSeq(items, other)

\* DELETE /cart/remove/:product_id
CartRemove(r, product_id) ==
    /\ r \in retailers
    /\ IF ~cart[r].exists
       THEN res' = Resp("cart.remove", 404, "no cart") /\ UNCHANGED cart
       ELSE /\ cart' = [cart EXCEPT ![r].items = withoutProduct(@, product_id)]
            /\ res' = Resp("cart.remove", 200, None)
    /\ UNCHANGED <<products, salesmanCart, orders, connections, retailers, today, reqs,
                   placed>>

\* DELETE /cart/clear: Cart.findOneAndUpdate({retailer_id}, {items: []}), no upsert
CartClear(r) ==
    /\ r \in retailers
    /\ cart' = [cart EXCEPT ![r].items = <<>>]
    /\ res' = Resp("cart.clear", 200, None)
    /\ UNCHANGED <<products, salesmanCart, orders, connections, retailers, today, reqs,
                   placed>>

\* DELETE /cart/:retailer_id/remove/:product_id (salesman)
SalesmanCartRemove(s, retailer_id, product_id) ==
    /\ IF ~salesmanCart[<<s, retailer_id>>].exists
       THEN res' = Resp("salesman.cart.remove", 404, "no cart") /\ UNCHANGED salesmanCart
       ELSE /\ salesmanCart' = [salesmanCart EXCEPT
                                    ![<<s, retailer_id>>].items = withoutProduct(@, product_id)]
            /\ res' = Resp("salesman.cart.remove", 200, None)
    /\ UNCHANGED <<products, cart, orders, connections, retailers, today, reqs, placed>>

\* DELETE /cart/:retailer_id/clear (salesman): SalesmanCart.findOneAndDelete
SalesmanCartClear(s, retailer_id) ==
    /\ salesmanCart' = [salesmanCart EXCEPT ![<<s, retailer_id>>] = NoSalesmanCart]
    /\ res' = Resp("salesman.cart.clear", 200, None)
    /\ UNCHANGED <<products, cart, orders, connections, retailers, today, reqs, placed>>

\* PUT /products/:id by the wholesaler w: every field of the body that is an allowed
\* update replaces the product's; body is a record that passes the schema's validation
UpdateProduct(w, id, body) ==
    /\ IF products[id].wholesaler_id # w
       THEN res' = Resp("products.update", 404, "Product not found") /\ UNCHANGED products
       ELSE /\ products' = [products EXCEPT ![id] =
                    [field \in DOMAIN @ |->
                        IF field \in DOMAIN body THEN body[field] ELSE @[field]]]
            /\ res' = Resp("products.update", 200, None)
    /\ UNCHANGED <<cart, salesmanCart, orders, connections, retailers, today, reqs, placed>>

\* the products of wholesaler w1 that the carts are filled with: p1 with a MOQ above
\* one, p3 with a MOQ of one
CartProducts == {"p1", "p3"}

\* quantities below every MOQ, between MOQ and stock, and above the stock
CartQuantities == 0..(MaxTierQty + 1)

InitCart ==
    /\ products = [p \in ProductIds |->
                    [ProductDoc(p, DefaultTiers, MaxTierQty) EXCEPT
                        !.moq = IF p = "p1" THEN MaxTierQty ELSE 1]]
    /\ connections = {ConnectionDoc(1, "w1", "r1", "approved", "wholesaler", None)}
    /\ retailers = RetailerIds
    /\ reqs = <<>>
    /\ InitRest

NextCart ==
    \/ \E p \in CartProducts, q \in CartQuantities : CartAdd("r1", p, q)
    \/ \E p \in CartProducts, q \in CartQuantities : CartUpdate("r1", p, q)
    \/ \E p \in CartProducts : CartRemove("r1", p)
    \/ CartClear("r1")
    \/ \E p \in CartProducts, q \in CartQuantities : SalesmanCartAdd("s1", "r1", p, q)
    \/ \E p \in CartProducts, q \in CartQuantities : SalesmanCartUpdate("s1", "r1", p, q)
    \/ \E p \in CartProducts : SalesmanCartRemove("s1", "r1", p)
    \/ SalesmanCartClear("s1", "r1")
    \/ \E w \in Wholesalers, b \in BOOLEAN : UpdateProduct(w, "p3", [is_active |-> b])
    \/ \E n \in {0, MaxTierQty} : UpdateProduct("w1", "p1", [stock_quantity |-> n])

SpecCart == InitCart /\ [][NextCart]_vars


\* the rejection that the quantity validation gives for quantity on product
quantityError(product, quantity) ==
    IF quantity < product.moq THEN "moq" ELSE "stock"

\* C16: a cart add or cart update, on the retailer's cart or the salesman's, with a
\* quantity below the product's MOQ or above its current stock fails and leaves the lines
\* of every cart as they were; when the request gets as far as the quantity validation
\* (add: the product is active; update: the product has a line in the cart) the error is
\* the MOQ error for a quantity below the MOQ and the stock error otherwise, and the two
\* errors differ.
C16_QuantityValidation ==
    [][\A p \in CartProducts, q \in CartQuantities :
         LET product == products[p]
             rejected == res'.code >= 400 /\ UNCHANGED <<cart, salesmanCart>>
             told == res'.code = 400 /\ res'.error = quantityError(product, q)
             inCart == \E i \in 1..Len(cart["r1"].items) :
                            cart["r1"].items[i].product_id = p
             inSalesmanCart == \E i \in 1..Len(salesmanCart[<<"s1", "r1">>].items) :
                                    salesmanCart[<<"s1", "r1">>].items[i].product_id = p
         IN  (q < product.moq \/ q > product.stock_quantity) =>
                /\ CartAdd("r1", p, q) => rejected /\ (product.is_active => told)
                /\ CartUpdate("r1", p, q) => rejected /\ (inCart => told)
                /\ SalesmanCartAdd("s1", "r1", p, q) =>
                        rejected /\ (product.is_active => told)
                /\ SalesmanCartUpdate("s1", "r1", p, q) =>
                        rejected /\ (inSalesmanCart => told)
      ]_vars

\* an update of p1's line in the cart was refused for a quantity above the stock, and
\* the line is as it was added
C16_Witness ==
    /\ res = Resp("cart.update", 400, "stock")
    /\ cart["r1"].items = <<[product_id |-> "p1", quantity |-> MaxTierQty,
                             unit_price |-> TierPrice(2)]>>
    /\ products["p1"].stock_quantity = MaxTierQty

\* C17, as claimed: a cart add or a cart update, on the retailer's cart or the salesman's,
\* for a product whose is_active flag is false fails and leaves every cart unchanged.
C17_InactiveProductRejected ==
    [][\A p \in CartProducts, q \in CartQuantities :
         ~products[p].is_active =>
            /\ CartAdd("r1", p, q) => res'.code >= 400 /\ UNCHANGED cart
            /\ CartUpdate("r1", p, q) => res'.code >= 400 /\ UNCHANGED cart
            /\ SalesmanCartAdd("s1", "r1", p, q) =>
                    res'.code >= 400 /\ UNCHANGED salesmanCart
            /\ SalesmanCartUpdate("s1", "r1", p, q) =>
                    res'.code >= 400 /\ UNCHANGED salesmanCart
      ]_vars

\* no product has two lines in items
oneLinePerProduct(items) ==
    \A i, j \in 1..Len(items) : items[i].product_id = items[j].product_id => i = j

\* items' is items with the line at position i replaced by line and nothing else changed
overwritten(items, itemsAfter, i, line) ==
    /\ Len(itemsAfter) = Len(items)
    /\ itemsAfter[i] = line
    /\ \A j \in 1..Len(items) : j # i => itemsAfter[j] = items[j]

\* C18: after every add, update, remove and clear each cart holds at most one line per
\* product; a successful add of a product that has a line at position i keeps the number
\* of lines, leaves the other lines alone and makes line i the product with the quantity
\* and the unit price of this add; an add that repeats the product and quantity of the
\* line it finds, at the price it was added with, leaves the cart as it is.
C18_OneLinePerProduct ==
    [][/\ oneLinePerProduct(cart'["r1"].items)
       /\ oneLinePerProduct(salesmanCart'[<<"s1", "r1">>].items)
       /\ \A p \in CartProducts, q \in CartQuantities :
            LET items == cart["r1"].items
                sitems == salesmanCart[<<"s1", "r1">>].items
                line == [product_id |-> p, quantity |-> q,
                         unit_price |-> cartAddUnitPrice(products[p], q)]
                sline == [product_id |-> p, quantity |-> q,
                          unit_price |-> salesmanAddUnitPrice(products[p], q)]
            IN  /\ \A i \in 1..Len(items) :
                     (CartAdd("r1", p, q) /\ res'.code = 200 /\ items[i].product_id = p) =>
                        /\ overwritten(items, cart'["r1"].items, i, line)
                        /\ items[i] = line => cart' = cart
                /\ \A i \in 1..Len(sitems) :
                     (/\ SalesmanCartAdd("s1", "r1", p, q)
                      /\ res'.code = 200
                      /\ sitems[i].product_id = p) =>
                        /\ overwritten(sitems, salesmanCart'[<<"s1", "r1">>].items, i, sline)
                        /\ sitems[i] = sline => salesmanCart' = salesmanCart
      ]_vars

\* the last request was a successful add to the cart while p3 cannot be added, so it added
\* p1; p1 is in front of p3, so it had its line before this add and kept its position
C18_Witness ==
    /\ res = Resp("cart.add", 200, None)
    /\ ~products["p3"].is_active
    /\ Len(cart["r1"].items) = 2
    /\ cart["r1"].items[1].product_id = "p1"
    /\ cart["r1"].items[2].product_id = "p3"


\* C19, as claimed: when a wholesaler or a salesman adds a retailer that has no account
\* and the request succeeds, the connection between the wholesaler and the new retailer
\* exists with status approved right after that request.
C19_AddedRetailerIsApproved ==
    [][\A r \in RetailerIds \ retailers :
         /\ \A w \in Wholesalers :
              (WholesalerAddRetailer(w, r) /\ res'.code = 201) =>
                  \E c \in connections' :
                      c.wholesaler_id = w /\ c.retailer_id = r /\ c.status = "approved"
         /\ \A s \in Salesmen :
              (SalesmanAddRetailer(s, r) /\ res'.code = 201) =>
                  \E c \in connections' :
                      /\ c.wholesaler_id = Salesman(s).wholesaler_id
                      /\ c.retailer_id = r
                      /\ c.status = "approved"
      ]_vars


-----------------------------------------------------------------------------
(* The owner specification: retailer r1 orders product p1 of wholesaler w1,   *)
(* and every wholesaler sends status updates and every retailer cancels, for  *)
(* every order                                                                *)

NextOwner ==
    \/ CartAdd("r1", "p1", MaxQty)
    \/ Len(orders) < MaxStatusOrders /\ PlaceOrder("r1")
    \/ \E w \in Wholesalers, id \in 1..Len(orders), st \in StatusInputs :
            UpdateStatus(w, id, st)
    \/ \E r \in RetailerIds, id \in 1..Len(orders) :
            \* a status update can make a cancelled order pending again, and its cancel
            \* then adds to the stock once more: the stock is capped
            /\ products["p1"].stock_quantity + quantityOf(orders[id].items, "p1")
                    <= 2 * MaxQty
            /\ CancelOrder(r, id)

SpecOwner == Init /\ [][NextOwner]_vars

\* C20: a status update by a wholesaler that is not the order's wholesaler, and a cancel
\* by a retailer that is not the order's retailer, fail and leave the order's status and
\* the stock of every product as they were (so one that succeeds was sent by the order's
\* wholesaler or retailer), and an order's status changes only by the status update of
\* its wholesaler or the cancel of its retailer.
C20_OwnerGated ==
    [][\A id \in 1..Len(orders) :
         /\ \A w \in Wholesalers \ {orders[id].wholesaler_id}, st \in StatusInputs :
              UpdateStatus(w, id, st) =>
                 /\ res'.code >= 400
                 /\ orders'[id].status = orders[id].status
                 /\ stockOf(products') = stockOf(products)
         /\ \A r \in RetailerIds \ {orders[id].retailer_id} :
              CancelOrder(r, id) =>
                 /\ res'.code >= 400
                 /\ orders'[id].status = orders[id].status
                 /\ stockOf(products') = stockOf(products)
         /\ orders'[id].status # orders[id].status =>
              \/ UpdateStatus(orders[id].wholesaler_id, id, orders'[id].status)
              \/ CancelOrder(orders[id].retailer_id, id)
      ]_vars

\* a wholesaler was refused the status update of the pending order of another wholesaler
C20_Witness ==
    /\ res = Resp("orders.status", 404, "Order not found")
    /\ \E id \in 1..Len(orders) :
          orders[id].wholesaler_id = "w1" /\ orders[id].status = "pending"


-----------------------------------------------------------------------------
(* The retailer's placement step by step (C21, C22), checked in SpecConc      *)

\* an order in ords that request q saved for its group g
persistedFor(ords, q, g) ==
    \E n \in 1..Len(ords) :
        /\ ords[n].retailer_id = q.retailer_id
        /\ ords[n].wholesaler_id = g.wholesaler_id
        /\ ords[n].placed_by_salesman = q.salesman_id
        /\ ords[n].items = g.items
        /\ \E m \in 1..Len(q.numbers) : q.numbers[m] = ords[n].order_number

\* every line that request q read is a line of items
holdsLinesOf(items, q) ==
    \A k \in 1..Len(q.groups) : \A l \in 1..Len(q.groups[k].items) :
        \E c \in 1..Len(items) :
            /\ items[c].product_id = q.groups[k].items[l].product_id
            /\ items[c].quantity = q.groups[k].items[l].quantity
            /\ items[c].unit_price = q.groups[k].items[l].unit_price

\* request i is the only placement of its retailer's own cart
onlyPlacement(rs, i) ==
    \A j \in 1..Len(rs) :
        (rs[j].kind = "retailer" /\ rs[j].retailer_id = rs[i].retailer_id) => j = i

\* C21: a retailer's placement clears the cart only in a step taken when it has saved an
\* order for every wholesaler group of the cart it read, and no other step of the
\* placement changes the cart; in every state, while an order of some group of the only
\* placement of a cart is not saved, the cart holds every line the placement read.
C21_ClearAfterAllPersisted ==
    /\ [][
          /\ \A i \in 1..Len(reqs) :
                (reqs[i].kind = "retailer" /\ ClearCart(i)) =>
                    \A k \in 1..Len(reqs[i].groups) :
                        persistedFor(orders, reqs[i], reqs[i].groups[k])
          /\ cart' # cart =>
                /\ \A r \in RetailerIds : ~BeginPlace(r)
                /\ \A j \in 1..Len(reqs) :
                      ~(CountOrders(j) \/ SaveOrder(j) \/ UpdateStock(j))
         ]_vars
    /\ [](\A i \in 1..Len(reqs) :
            (/\ reqs[i].kind = "retailer"
             /\ onlyPlacement(reqs, i)
             /\ \E k \in 1..Len(reqs[i].groups) :
                    ~persistedFor(orders, reqs[i], reqs[i].groups[k])) =>
                holdsLinesOf(cart[reqs[i].retailer_id].items, reqs[i]))

\* a placement over the products of two wholesalers has saved both orders and then
\* cleared the cart
C21_Witness ==
    /\ res = Resp("orders.place", 201, None)
    /\ cart["r1"].items = <<>>
    /\ \E i \in 1..Len(reqs) :
          /\ reqs[i].kind = "retailer" /\ reqs[i].pc = "done"
          /\ Len(reqs[i].groups) = 2
          /\ \A k \in 1..2 : persistedFor(orders, reqs[i], reqs[i].groups[k])

\* C22: when the save of the order of group k of a retailer's placement is refused, the
\* placement answers with an error and ends: the step changes no order, no stock and no
\* cart, so the orders saved for the groups before k and their stock decrements stay,
\* no order of this placement exists for group k or a later one, and the cart keeps
\* its lines (every line the placement read, when no other placement of this cart runs).
C22_NoRollback ==
    [][\A i \in 1..Len(reqs) :
         (/\ reqs[i].kind = "retailer"
          /\ SaveOrder(i)
          /\ orderNumberTaken(orders, reqs[i].number)) =>
            /\ res' = Resp("orders.place", 500, "Server error")
            /\ reqs'[i].pc = "done"
            /\ UNCHANGED <<orders, products, cart>>
            /\ \A k \in 1..(reqs[i].k - 1) :
                  /\ persistedFor(orders', reqs[i], reqs[i].groups[k])
                  /\ \A p \in productsOf(reqs[i].groups[k].items) :
                        products'[p].stock_quantity <=
                            MaxQty - quantityOf(reqs[i].groups[k].items, p)
            /\ onlyPlacement(reqs, i) =>
                  holdsLinesOf(cart'[reqs[i].retailer_id].items, reqs[i])
      ]_vars

\* the retailer's placement over two wholesalers saved its first order and took its
\* stock, and was refused the second order's number, which the salesman's placement
\* had taken; the retailer's cart has its two lines
C22_Witness ==
    /\ res = Resp("orders.place", 500, "Server error")
    /\ Len(cart["r1"].items) = 2
    /\ \E i \in 1..Len(reqs) :
          /\ reqs[i].kind = "retailer" /\ reqs[i].pc = "done" /\ reqs[i].k = 2
          /\ persistedFor(orders, reqs[i], reqs[i].groups[1])
          /\ ~persistedFor(orders, reqs[i], reqs[i].groups[2])
    /\ \E n \in 1..Len(orders) : orders[n].placed_by_salesman = "s1"


-----------------------------------------------------------------------------
(* The partition specification: retailer r1 fills its cart with the products  *)
(* of two wholesalers, two of them of one wholesaler, in every order of       *)
(* insertion, and places orders; every handler is one step                    *)

NextPartition ==
    \/ \E p \in ProductIds : CartAdd("r1", p, MaxQty)
    \/ \E p \in ProductIds : CartRemove("r1", p)
    \/ Len(orders) + groupCount("r1") <= MaxOrders /\ PlaceOrder("r1")

SpecPartition == Init /\ [][NextPartition]_vars

\* the product, quantity and unit price of each line, in order
linesOf(items) ==
    [i \in 1..Len(items) |->
        [product_id |-> items[i].product_id, quantity |-> items[i].quantity,
         unit_price |-> items[i].unit_price]]

\* C23: a successful placement by a retailer creates as many orders as the cart's lines
\* have distinct owning wholesalers; for each of these wholesalers exactly one created
\* order is addressed to it, and its lines are the cart lines of that wholesaler's
\* products, in cart order and with their quantities and unit prices; every cart line is
\* on exactly one line of one created order; every created order is the retailer's, with
\* status pending and payment status pending.
C23_OneOrderPerWholesaler ==
    [][\A r \in RetailerIds : placesOk(r) =>
         LET items == cart[r].items
             owner(item) == products[item.product_id].wholesaler_id
             owners == {owner(items[c]) : c \in 1..Len(items)}
         IN  /\ Len(orders') >= Len(orders)
             /\ Cardinality(created) = Cardinality(owners)
             /\ \A w \in owners :
                  LET ownedBy(item) == owner(item) = w
                  IN  \E i \in created :
                        /\ orders'[i].wholesaler_id = w
                        /\ linesOf(orders'[i].items) = linesOf(SelectSeq(items, ownedBy))
                        /\ \A j \in created : orders'[j].wholesaler_id = w => j = i
             /\ \A c \in 1..Len(items) :
                  Cardinality({il \in created \X (1..Len(items)) :
                      /\ il[2] <= Len(orders'[il[1]].items)
                      /\ linesOf(orders'[il[1]].items)[il[2]] = linesOf(items)[c]}) = 1
             /\ \A i \in created :
                  /\ orders'[i].retailer_id = r
                  /\ orders'[i].status = "pending"
                  /\ orders'[i].payment_status = "pending"
                  /\ \A k \in 1..Len(orders) : orders'[k] = orders[k]
      ]_vars

\* a placement from a cart with the lines p1, p2, p3 has created an order of two lines
\* for w1 and an order of one line for w2
C23_Witness ==
    /\ res = Resp("orders.place", 201, None)
    /\ Len(orders) >= 2
    /\ LET a == orders[Len(orders) - 1]
           b == orders[Len(orders)]
       IN  /\ a.wholesaler_id = "w1" /\ b.wholesaler_id = "w2"
           /\ a.order_number.sequence + 1 = b.order_number.sequence
           /\ [l \in 1..Len(a.items) |-> a.items[l].product_id] = <<"p1", "p3">>
           /\ [l \in 1..Len(b.items) |-> b.items[l].product_id] = <<"p2">>


-----------------------------------------------------------------------------
(* The snapshot specification: the wholesaler changes the pricing tiers, the  *)
(* base price and the GST percentage of product p1 while the retailer and the *)
(* salesman hold it in their carts and place orders                           *)

\* the bodies of PUT /products/:id that change a price or the tax of the product
PriceBodies ==
    {[pricing_tiers |-> <<>>], [pricing_tiers |-> DefaultTiers],
     [base_price |-> TierPrice(MaxTiers + 1)], [gst_percentage |-> 0],
     [gst_percentage |-> 5]}

NextSnapshot ==
    \/ \E q \in 1..MaxQty : CartAdd("r1", "p1", q)
    \/ \E q \in 1..MaxQty : CartUpdate("r1", "p1", q)
    \/ \E q \in 1..MaxQty : SalesmanCartAdd("s1", "r1", "p1", q)
    \/ \E q \in 1..MaxQty : SalesmanCartUpdate("s1", "r1", "p1", q)
    \/ \E body \in PriceBodies : UpdateProduct("w1", "p1", body)
    \/ Len(orders) < MaxStatusOrders /\ PlaceOrder("r1")
    \/ Len(orders) < MaxStatusOrders /\ SalesmanPlaceOrder("s1", "r1")

SpecSnapshot == Init /\ [][NextSnapshot]_vars

\* the order line that a cart line gives with the product as it is now: the stored unit
\* price, and the GST of the product's current percentage
snapshotLine(item, product) ==
    [product_id |-> item.product_id, quantity |-> item.quantity,
     unit_price |-> item.unit_price,
     gst_amount |-> (item.quantity * item.unit_price * product.gst_percentage) \div 100,
     total_price |-> item.quantity * item.unit_price
        + (item.quantity * item.unit_price * product.gst_percentage) \div 100]

-----------------------------------------------------------------------------
(* The frame specification: orders are placed, every wholesaler sends status  *)
(* updates for them on the day of the order and on later days, and the        *)
(* retailer goes on filling its cart                                          *)

\* midnight passes
NextDay ==
    /\ today < MaxDay
    /\ today' = today + 1
    /\ UNCHANGED <<products, cart, salesmanCart, orders, connections, retailers, reqs, res,
                   placed>>

NextFrame ==
    \/ CartAdd("r1", "p1", MaxQty)
    \/ SalesmanCartAdd("s1", "r1", "p1", MaxQty)
    \/ Len(orders) < MaxStatusOrders /\ PlaceOrder("r1")
    \/ Len(orders) < MaxStatusOrders /\ SalesmanPlaceOrder("s1", "r1")
    \/ \E w \in Wholesalers, id \in 1..Len(orders), st \in StatusInputs :
            UpdateStatus(w, id, st)
    \/ NextDay

SpecFrame == Init /\ [][NextFrame]_vars

\* the step changes of order id no field outside `fields`, and no other order
onlyFields(id, fields) ==
    /\ Len(orders') = Len(orders)
    /\ \A n \in 1..Len(orders) : n # id => orders'[n] = orders[n]
    /\ DOMAIN orders'[id] = DOMAIN orders[id]
    /\ \A f \in DOMAIN orders[id] : f \notin fields => orders'[id][f] = orders[id][f]

\* C25, as claimed: a status update, whatever the new status, changes no product's
\* stock_quantity, no cart, and no field of the order other than status.
C25_StatusUpdateFrame ==
    [][\A w \in Wholesalers, id \in 1..Len(orders), st \in StatusInputs :
         UpdateStatus(w, id, st) =>
            /\ stockOf(products') = stockOf(products)
            /\ UNCHANGED <<cart, salesmanCart>>
            /\ onlyFields(id, {"status"})
      ]_vars

\* C25, amended: a status update, whatever the new status, changes no product's
\* stock_quantity, no cart, and no field of the order other than status and updatedAt.
C25_StatusUpdateFrameButUpdatedAt ==
    [][\A w \in Wholesalers, id \in 1..Len(orders), st \in StatusInputs :
         UpdateStatus(w, id, st) =>
            /\ stockOf(products') = stockOf(products)
            /\ UNCHANGED <<cart, salesmanCart>>
            /\ onlyFields(id, {"status", "updatedAt"})
      ]_vars

\* the wholesaler has set an order to cancelled on a later day: the stock the order took
\* is still taken, the retailer's cart has its line, the order is stamped with that day
C25_Witness ==
    /\ res = Resp("orders.status", 200, None)
    /\ Len(cart["r1"].items) = 1
    /\ \E id \in 1..Len(orders) :
          /\ orders[id].status = "cancelled"
          /\ orders[id].updatedAt > orders[id].createdAt
          /\ products["p1"].stock_quantity = MaxQty - quantityOf(orders[id].items, "p1")
          /\ quantityOf(orders[id].items, "p1") > 0


-----------------------------------------------------------------------------
(* The scope specification: salesman s1 of wholesaler w1 adds every product,  *)
(* its wholesaler's and another's, to the cart it keeps for retailer r1,      *)
(* updates and removes lines and places orders                                *)

NextScope ==
    \/ \E p \in ProductIds, q \in 1..MaxTierQty : SalesmanCartAdd("s1", "r1", p, q)
    \/ \E p \in ProductIds, q \in 1..MaxTierQty : SalesmanCartUpdate("s1", "r1", p, q)
    \/ \E p \in ProductIds : SalesmanCartRemove("s1", "r1", p)
    \/ Len(orders) < MaxOrders /\ SalesmanPlaceOrder("s1", "r1")

SpecScope == InitCart /\ [][NextScope]_vars

\* C26: the wholesaler of every salesman cart is the wholesaler of its salesman and the
\* owner of the product of each of its lines, and every order placed by a salesman is
\* addressed to the owner of the product of each of its lines.
C26_SalesmanCartScope ==
    /\ \A s \in Salesmen, r \in RetailerIds :
          LET c == salesmanCart[<<s, r>>]
          IN  c.exists =>
                /\ c.wholesaler_id = Salesman(s).wholesaler_id
                /\ \A l \in 1..Len(c.items) :
                      products[c.items[l].product_id].wholesaler_id = c.wholesaler_id
    /\ \A n \in 1..Len(orders) :
          orders[n].placed_by_salesman # None =>
              \A l \in 1..Len(orders[n].items) :
                  products[orders[n].items[l].product_id].wholesaler_id
                      = orders[n].wholesaler_id

\* the salesman has placed an order of two lines, holds a line in the cart again, and was
\* refused a product of another wholesaler
C26_Witness ==
    /\ res = Resp("salesman.cart.add", 400, "not your product")
    /\ Len(salesmanCart[<<"s1", "r1">>].items) > 0
    /\ \E n \in 1..Len(orders) :
          orders[n].placed_by_salesman = "s1" /\ Len(orders[n].items) = 2


\* C27, as claimed: a cart add of a retailer succeeds only when the wholesaler that owns
\* the product has an approved connection with the retailer at that moment.
C27_CartAddNeedsConnection ==
    [][\A r \in RetailerIds, p \in ProductIds, q \in 1..MaxQty :
         (CartAdd(r, p, q) /\ res'.code = 200) =>
            \E c \in connections :
                /\ c.wholesaler_id = products[p].wholesaler_id
                /\ c.retailer_id = r
                /\ c.status = "approved"
      ]_vars


\* the quantity of product p on the orders that are not cancelled
RECURSIVE orderedQuantity(_, _)
orderedQuantity(ords, p) ==
    IF ords = <<>> THEN 0
    ELSE orderedQuantity(SubSeq(ords, 1, Len(ords) - 1), p)
            + (IF ords[Len(ords)].status # "cancelled"
               THEN quantityOf(ords[Len(ords)].items, p) ELSE 0)

\* C28, as claimed: the stock of every product plus its quantity on the orders that are
\* not cancelled is the product's initial stock.
C28_StockConservation ==
    \A p \in ProductIds :
        products[p].stock_quantity + orderedQuantity(orders, p) = MaxQty


-----------------------------------------------------------------------------
(* Cancels as the server runs them: the handler gives way at the query, at    *)
(* the save and at every stock update, so the steps of the cancels in flight  *)
(* interleave.  reqs holds the cancel requests that passed the status check.  *)

\* a cancel that has read its order and found it pending
CancelRequest(r, id, order) ==
    [kind |-> "cancel", retailer_id |-> r, id |-> id, items |-> order.items,
     pc |-> "save", j |-> 1]

\* PUT /orders/:id/cancel up to order.save(): the order is read by id and retailer, and
\* its status is checked
BeginCancel(r, id) ==
    /\ r \in retailers
    /\ id \in 1..Len(orders)
    /\ IF orders[id].retailer_id # r
       THEN res' = Resp("orders.cancel", 404, "Order not found") /\ UNCHANGED reqs
       ELSE IF orders[id].status # "pending"
       THEN /\ res' = Resp("orders.cancel", 400, "Can only cancel pending orders")
            /\ UNCHANGED reqs
       ELSE reqs' = Append(reqs, CancelRequest(r, id, orders[id])) /\ UNCHANGED res
    /\ UNCHANGED <<products, cart, salesmanCart, orders, connections, retailers, today,
                   placed>>

\* order.status = 'cancelled'; await order.save(): the document read is written back by
\* its id, whatever the stored status has become
SaveCancel(i) ==
    /\ reqs[i].pc = "save"
    /\ orders' = [orders EXCEPT ![reqs[i].id].status = "cancelled",
                                ![reqs[i].id].updatedAt = today]
    /\ reqs' = [reqs EXCEPT ![i].pc = "restore"]
    /\ UNCHANGED <<products, cart, salesmanCart, connections, retailers, today, res,
                   placed>>

\* await Product.findByIdAndUpdate(item.product_id, {$inc: {stock_quantity:
\* item.quantity}}) for line j of the order; after the last line the 200
RestoreStock(i) ==
    LET q == reqs[i]
    IN  /\ q.pc = "restore"
        /\ products' = incStock(products, <<q.items[q.j]>>, 1)
        /\ IF q.j < Len(q.items)
           THEN reqs' = [reqs EXCEPT ![i].j = q.j + 1] /\ UNCHANGED res
           ELSE /\ reqs' = [reqs EXCEPT ![i].pc = "done"]
                /\ res' = Resp("orders.cancel", 200, None)
        /\ UNCHANGED <<cart, salesmanCart, orders, connections, retailers, today, placed>>

NextCancelRace ==
    \/ \E p \in {"p1", "p3"} : CartAdd("r1", p, MaxQty)
    \/ Len(orders) < MaxStatusOrders /\ PlaceOrder("r1")
    \/ \E r \in RetailerIds, id \in 1..Len(orders) :
            Len(reqs) < MaxRequests /\ BeginCancel(r, id)
    \/ \E i \in 1..Len(reqs) : SaveCancel(i)
    \/ \E i \in 1..Len(reqs) : RestoreStock(i)

SpecCancelRace == Init /\ [][NextCancelRace]_vars

\* C29, as claimed: whatever the interleaving of the cancels of one pending order, the
\* order's quantities are added back once: no product's stock plus its quantity on the
\* orders that are not cancelled exceeds the stock before the order, and the two are
\* equal when no cancel is in flight.
C29_CancelRestoresOnce ==
    \A p \in ProductIds :
        /\ products[p].stock_quantity + orderedQuantity(orders, p) <= MaxQty
        /\ (\A i \in 1..Len(reqs) : reqs[i].pc = "done") =>
                products[p].stock_quantity + orderedQuantity(orders, p) = MaxQty


-----------------------------------------------------------------------------
(* The double-submission specification: the retailer and the salesman fill    *)
(* their carts, and after that placements are sent, several from one cart;    *)
(* a placement that finds the cart cleared by an earlier one ends at once, so *)
(* all the placements in reqs have read the same content of their cart        *)

NextTwice ==
    \/ Len(reqs) = 0 /\ \E p \in {"p1", "p2"} : CartAdd("r1", p, MaxQty)
    \/ Len(reqs) = 0 /\ SalesmanCartAdd("s1", "r1", "p1", MaxQty)
    \/ Len(reqs) < MaxRequests /\ BeginPlace("r1")
    \/ Len(reqs) < MaxRequests /\ BeginSalesmanPlace("s1", "r1")
    \/ \E i \in 1..Len(reqs) : CountOrders(i)
    \/ \E i \in 1..Len(reqs) : SaveOrder(i)
    \/ \E i \in 1..Len(reqs) : UpdateStock(i)
    \/ \E i \in 1..Len(reqs) : ClearCart(i)

SpecTwice == Init /\ [][NextTwice]_vars

\* the orders that placer (a salesman, or None for the retailer itself) placed for
\* retailer r with wholesaler w
ordersOf(r, placer, w) ==
    {n \in 1..Len(orders) : /\ orders[n].retailer_id = r
                            /\ orders[n].placed_by_salesman = placer
                            /\ orders[n].wholesaler_id = w}

\* C30, as claimed: the content of a cart is turned into orders at most once, however
\* many placements are sent from it: at most one order for each wholesaler from the
\* retailer's cart and at most one from the salesman's, and no product's stock is taken
\* below what one placement of each cart that holds it leaves.
C30_PlacedAtMostOnce ==
    /\ \A w \in Wholesalers :
          /\ Cardinality(ordersOf("r1", None, w)) <= 1
          /\ Cardinality(ordersOf("r1", "s1", w)) <= 1
    /\ products["p1"].stock_quantity >= MaxQty - 2 * MaxQty
    /\ products["p2"].stock_quantity >= MaxQty - MaxQty

====
